---- MODULE Spec2Model ----
(***************************************************************************)
(* Verification model of the sysmaster unit manager core:                  *)
(*   - the child manager's PID index (unit_child.rs),                      *)
(*   - the job transaction engine (job_transaction.rs),                    *)
(*   - the unit start/stop gates (u_entry.rs) and the socket sub-unit      *)
(*     state machine (coms/socket/src/mng.rs, unit.rs).                    *)
(***************************************************************************)
EXTENDS Integers, Sequences, FiniteSets, TLC

\* ------------------------------------------------------------------- state
VARIABLES
    watch_pids,     \* UnitChildData.watch_pids : pid -> unit id (NoUnit = absent)
    child_pids,     \* Unit.child (UeChild)     : unit id -> set of pids
    clast           \* the last call on UnitChild: operation, id, pid, outcome

childVars == <<watch_pids, child_pids, clast>>

VARIABLES
    load_state,     \* UeLoad.load_state of every unit
    conf_file,      \* what loading the unit's files would find now
    uactive,        \* units whose active state is active
    stage,          \* Suspend Table: set of <<unit, kind>>
    jobs,           \* Run Table: set of [unit, kind, irreversible]
    tx,             \* the transaction being built: pc, request, result
    fallback        \* the job_trans_fallback call under way: the failed job
                    \*   and the jobs it returned

jobVars == <<load_state, conf_file, uactive, stage, jobs, tx, fallback>>

VARIABLES
    cfg,        \* SocketConfig: Accept, number of parsed SocketPortConf
    sock,       \* SocketMngData: state, result, control pid, command queue,
                \*   refused, ports (fd, event source enabled)
    db,         \* the persisted record of the socket (rentry)
    slast,      \* the last call of Unit::start / Unit::stop and its outcome
    io,         \* the dispatch_io call of the last step and what it did
    svc         \* the triggered service: the fds it holds

sockVars == <<cfg, sock, db, slast, io, svc>>

VARIABLES
    reli,       \* Reliability: the enable flag and the last-frame marker, which
                \*   outlive the manager process
    mgr         \* Manager: mode, state, what startup / reload did and returned

VARIABLE
    call        \* the library call under way: operation, arguments, outcome

VARIABLE
    wm          \* devmaster's WorkerManager: the worker table, each worker's
                \*   channel and thread, the acks on their way to the manager

partVars == <<reli, mgr, call, wm>>

\* ------------------------------------------------------------------ bounds
MaxPid == 3
\* a request is taken while the Run Table holds at most this many jobs
MaxRunJobs == 1
\* manager processes that are started one after the other
MaxBoots == 3
\* characters of a listen item
MaxItemLen == 5
\* devmaster: workers_capacity, device jobs inserted, kill commands given
WorkersCapacity == 2
MaxDevJobs == 3
MaxKills == 2
NoUnit == "none"

\* registered units of the child manager (UnitSets)
ChildUnits == {"u1", "u2"}
\* an id that UnitSets does not hold
UnknownUnit == "u3"
Pids == 1..MaxPid


\* ============================================================ child manager

\* an add_watch_pid that keeps the entry a pid already has
DataAddWatchPidKeep(wp, u, pid) ==
    IF wp[pid] = NoUnit THEN [wp EXCEPT ![pid] = u] ELSE wp

\* UnitChildData::add_watch_pid : HashMap::insert(pid, unit) overwrites
DataAddWatchPid(wp, u, pid) == [wp EXCEPT ![pid] = u]

\* UnitChildData::unwatch_pid : HashMap::remove(&pid), the unit is ignored
DataUnwatchPid(wp, u, pid) == [wp EXCEPT ![pid] = NoUnit]

\* UnitChildData::get_unit_by_pid
GetUnitByPid(pid) == watch_pids[pid]

\* Unit::child_add_pids
ChildAddPids(cp, u, pid) == [cp EXCEPT ![u] = @ \cup {pid}]

\* Unit::child_remove_pids
ChildRemovePids(cp, u, pid) == [cp EXCEPT ![u] = @ \ {pid}]

ChildInit ==
    /\ watch_pids = [p \in Pids |-> NoUnit]
    /\ child_pids = [u \in ChildUnits |-> {}]
    /\ clast = [op |-> "none", id |-> NoUnit, pid |-> 0, ret |-> "ok"]

\* UnitChild::add_watch_pid(id, pid) : units.get(id).unwrap() panics for an
\* id that is not registered, before anything is written
AddWatchPid ==
    /\ clast.ret # "panic"
    /\ \E u \in ChildUnits \cup {UnknownUnit}, pid \in Pids :
        IF u \in ChildUnits
        THEN /\ watch_pids' = DataAddWatchPid(watch_pids, u, pid)
             /\ child_pids' = ChildAddPids(child_pids, u, pid)
             /\ clast' = [op |-> "add", id |-> u, pid |-> pid, ret |-> "ok"]
        ELSE /\ UNCHANGED <<watch_pids, child_pids>>
             /\ clast' = [op |-> "add", id |-> u, pid |-> pid,
                          ret |-> "panic"]
    /\ UNCHANGED <<jobVars, sockVars, partVars>>

\* UnitChild::unwatch_pid(id, pid)
UnwatchPid ==
    /\ clast.ret # "panic"
    /\ \E u \in ChildUnits \cup {UnknownUnit}, pid \in Pids :
        IF u \in ChildUnits
        THEN /\ watch_pids' = DataUnwatchPid(watch_pids, u, pid)
             /\ child_pids' = ChildRemovePids(child_pids, u, pid)
             /\ clast' = [op |-> "unwatch", id |-> u, pid |-> pid,
                          ret |-> "ok"]
        ELSE /\ UNCHANGED <<watch_pids, child_pids>>
             /\ clast' = [op |-> "unwatch", id |-> u, pid |-> pid,
                          ret |-> "panic"]
    /\ UNCHANGED <<jobVars, sockVars, partVars>>

ChildNext == AddWatchPid \/ UnwatchPid

\* ========================================================= job transactions

JobUnits == {"A", "B", "C"}
JobUnitSeq == <<"A", "B", "C">>      \* UnitSets::get_all iteration order

JobKinds == {"Start", "Stop", "Reload", "Restart", "Verify",
             "TryRestart", "TryReload", "Nop"}
JobModes == {"Fail", "Replace", "ReplaceIrreversibly", "Isolate", "Flush",
             "IgnoreDependencies", "IgnoreRequirements", "Trigger"}
\* the modes a request of the model draws from
ReqModes == {"Fail", "Replace", "ReplaceIrreversibly", "Isolate", "Trigger"}
\* the kinds a request of the model draws from
ReqKinds == {"Start", "Stop", "Reload", "Restart", "TryRestart"}

LoadStates == {"stub", "loaded", "not-found", "error", "merged", "masked"}
ConfFiles == {"ok", "missing", "bad"}

\* dependency atoms of the model's unit graph (UnitDep::gets_atom), as the
\* ordered lists the engine iterates over
NoDeps == [u \in JobUnits |-> <<>>]
DepGraph ==
    [PullInStart        |-> [NoDeps EXCEPT !["A"] = <<"B">>],
     PullInStartIgnored |-> [NoDeps EXCEPT !["B"] = <<"A">>],
     PullInVerify       |-> [NoDeps EXCEPT !["C"] = <<"B">>],
     PullInStop         |-> [NoDeps EXCEPT !["B"] = <<"C">>],
     PullInStopIgnored  |-> [NoDeps EXCEPT !["A"] = <<"C">>],
     PropagateStop      |-> [NoDeps EXCEPT !["A"] = <<"B">>, !["B"] = <<"A">>],
     PropagateRestart   |-> [NoDeps EXCEPT !["B"] = <<"A">>],
     PropagatesReloadTo |-> [NoDeps EXCEPT !["A"] = <<"C">>],
     TriggeredBy        |-> [NoDeps EXCEPT !["A"] = <<"C">>, !["B"] = <<"C">>],
     PropagateStartFailure |-> [NoDeps EXCEPT !["A"] = <<"B">>,
                                              !["C"] = <<"A">>],
     PropagateStopFailure  |-> [NoDeps EXCEPT !["A"] = <<"B">>,
                                              !["C"] = <<"A", "B">>]]

GetsAtom(u, atom) == DepGraph[atom][u]

\* IgnoreOnIsolate of each unit (Unit::ignore_on_isolate)
IgnoreOnIsolate == [u \in JobUnits |-> u = "B"]


IdleTx == [pc |-> "idle", unit |-> "A", kind |-> "Nop", mode |-> "Fail",
           ret |-> "ok", pre |-> {}]

\* ------------------------------------------------------------- unit loading

\* Unit::load_unit : load_unit_confs fails -> UnitNotFound; the sub load
\* fails -> error returned, the load state stays; otherwise UnitLoaded
LoadUnit(ls, cf) ==
    CASE cf = "missing" -> [ls |-> "not-found", err |-> "other"]
      [] cf = "bad"     -> [ls |-> ls,          err |-> "badr"]
      [] OTHER          -> [ls |-> "loaded",    err |-> "ok"]

\* UnitX::is_load_complete
IsLoadComplete(ls) == ls # "stub"

\* UnitX::try_load : a loaded unit is fine; a unit whose last load failed
\* is loaded again; merged and masked units cannot be loaded
TryLoad(ls, cf) ==
    CASE ls = "loaded"                -> [ls |-> ls, err |-> "ok"]
      [] ls \in {"merged", "masked"}  -> [ls |-> ls, err |-> "other"]
      [] OTHER                        -> LoadUnit(ls, cf)

\* job_entry::job_is_unit_applicable : every kind of the model applies
JobIsUnitApplicable(kind, u) == TRUE

\* trans_expand_check_input
TransExpandCheckInput(ls, cf, u, kind) ==
    IF ~IsLoadComplete(ls[u]) THEN [ls |-> ls, err |-> "input"]
    ELSE IF kind # "Stop" THEN
        LET r == TryLoad(ls[u], cf[u])
        IN  [ls  |-> [ls EXCEPT ![u] = r.ls],
             err |-> CASE r.err = "ok"   -> "ok"
                       [] r.err = "badr" -> "badr"
                       [] OTHER          -> "input"]
    ELSE IF ~JobIsUnitApplicable(kind, u) THEN [ls |-> ls, err |-> "input"]
    ELSE [ls |-> ls, err |-> "ok"]

\* JobConf::map : the try-kinds collapse on the unit's active state
JobConfMap(act, u, kind) ==
    CASE kind = "TryRestart" -> IF u \in act THEN "Restart" ELSE "Nop"
      [] kind = "TryReload"  -> IF u \in act THEN "Reload" ELSE "Nop"
      [] OTHER               -> kind

\* trans_is_expand without the test of 'new'
TransIsExpandAlways(kind, new, mode) ==
    /\ kind # "Nop"
    /\ mode \notin {"IgnoreDependencies", "IgnoreRequirements"}

\* trans_is_expand
TransIsExpand(kind, new, mode) ==
    /\ kind # "Nop"
    /\ new
    /\ mode \notin {"IgnoreDependencies", "IgnoreRequirements"}

\* JobTable::is_unit_empty on the suspend table
IsUnitEmpty(stg, u) == ~\E j \in stg : j[1] = u

\* JobTable::record_suspend : insert if absent, tell whether it was new
RecordSuspend(stg, u, kind) ==
    [stage |-> stg \cup {<<u, kind>>}, new |-> <<u, kind>> \notin stg]

\* ---------------------------------------------------------------- expansion
\* st = [stage, ls, err, n]; err in {"ok", "input", "badr", "panic",
\* "diverge"}; n counts the calls of job_trans_expand that went on to expand
\* dependencies. Only the four kinds of the match in job_trans_expand are
\* expanded, and the suspend table has at most one entry per unit and kind,
\* so a run that expands more often than there are such pairs would never
\* return: the model ends it with "diverge".
ExpandKinds == {"Start", "Stop", "Reload", "Restart"}
MaxExpandCalls == Cardinality(JobUnits \X ExpandKinds)

RECURSIVE JobTransExpand(_, _, _, _, _, _)
RECURSIVE TransExpandList(_, _, _, _, _, _, _, _)

\* one 'for other in dep.gets_atom(unit, atom)' loop; tolerate is the set of
\* errors of a callee the loop swallows
TransExpandList(st, cf, act, others, kind, mode, tolerate, i) ==
    IF i > Len(others) THEN st
    ELSE LET r == JobTransExpand([st EXCEPT !.err = "ok"], cf, act,
                                 others[i], kind, mode)
         IN  IF r.err = "panic" THEN r
             ELSE IF r.err # "ok" /\ r.err \notin tolerate THEN r
             ELSE TransExpandList([r EXCEPT !.err = "ok"], cf, act, others,
                                  kind, mode, tolerate, i + 1)

AllErrs == {"input", "badr", "conflict"}

\* trans_expand_start whose Ignored loops swallow bad-request only
TransExpandStartStrict ==
    <<[atom |-> "PullInStart",        kind |-> "Start",  tolerate |-> {"badr"}],
      [atom |-> "PullInStartIgnored", kind |-> "Start",  tolerate |-> {"badr"}],
      [atom |-> "PullInVerify",       kind |-> "Verify", tolerate |-> {"badr"}],
      [atom |-> "PullInStop",         kind |-> "Stop",   tolerate |-> {"badr"}],
      [atom |-> "PullInStopIgnored",  kind |-> "Stop",   tolerate |-> {"badr"}]>>

\* trans_expand_start : its five loops in order, each with the atom it
\* iterates over, the kind it expands and the errors it swallows
TransExpandStart ==
    <<[atom |-> "PullInStart",        kind |-> "Start",  tolerate |-> {"badr"}],
      [atom |-> "PullInStartIgnored", kind |-> "Start",  tolerate |-> AllErrs],
      [atom |-> "PullInVerify",       kind |-> "Verify", tolerate |-> {"badr"}],
      [atom |-> "PullInStop",         kind |-> "Stop",   tolerate |-> {"badr"}],
      [atom |-> "PullInStopIgnored",  kind |-> "Stop",   tolerate |-> AllErrs]>>

\* trans_expand_stop that follows PropagateStop for a Restart as well
TransExpandStopAlongStop(kind) ==
    CASE kind \in {"Stop", "Restart"} ->
            <<[atom |-> "PropagateStop", kind |-> "Stop",
               tolerate |-> {"badr"}]>>
      [] OTHER -> <<>>

\* trans_expand_stop : the loop for the kind; <<>> stands for unreachable!
TransExpandStop(kind) ==
    CASE kind = "Stop" ->
            <<[atom |-> "PropagateStop", kind |-> "Stop",
               tolerate |-> {"badr"}]>>
      [] kind = "Restart" ->
            <<[atom |-> "PropagateRestart", kind |-> "TryRestart",
               tolerate |-> {"badr"}]>>
      [] OTHER -> <<>>

\* trans_expand_reload
TransExpandReload ==
    <<[atom |-> "PropagatesReloadTo", kind |-> "TryReload",
       tolerate |-> AllErrs]>>

\* the loops job_trans_expand runs for a mapped kind (Restart: those of
\* trans_expand_start, then those of trans_expand_stop)
ExpandLoops(mk) ==
    CASE mk = "Start"   -> TransExpandStart
      [] mk = "Stop"    -> TransExpandStop(mk)
      [] mk = "Reload"  -> TransExpandReload
      [] mk = "Restart" -> TransExpandStart \o TransExpandStop(mk)
      [] OTHER          -> <<>>

\* the loops one after the other; '?' returns at the first error left
RECURSIVE RunExpandLoops(_, _, _, _, _, _, _)
RunExpandLoops(st, cf, act, u, loops, mode, p) ==
    IF p > Len(loops) \/ st.err # "ok" THEN st
    ELSE RunExpandLoops(
            TransExpandList(st, cf, act, GetsAtom(u, loops[p].atom),
                            loops[p].kind, mode, loops[p].tolerate, 1),
            cf, act, u, loops, mode, p + 1)

\* job_trans_expand
JobTransExpand(st, cf, act, u, kind, mode) ==
    LET ci == TransExpandCheckInput(st.ls, cf, u, kind)
    IN  IF ci.err # "ok" THEN [st EXCEPT !.ls = ci.ls, !.err = ci.err]
        ELSE
        LET mk  == JobConfMap(act, u, kind)
            rec == RecordSuspend(st.stage, u, mk)
            s1  == [stage |-> rec.stage, ls |-> ci.ls, err |-> "ok",
                    n |-> st.n]
        IN  IF ~TransIsExpand(mk, rec.new, mode) THEN s1
            ELSE IF mk \notin {"Start", "Stop", "Reload", "Restart"}
            THEN [s1 EXCEPT !.err = "panic"]            \* unreachable!
            ELSE IF st.n >= MaxExpandCalls
            THEN [s1 EXCEPT !.err = "diverge"]
            ELSE RunExpandLoops([s1 EXCEPT !.n = st.n + 1], cf, act, u,
                                ExpandLoops(mk), mode, 1)

\* ------------------------------------------------------------------- affect

\* the loop of trans_affect_isolate over units.get_all()
RECURSIVE TransAffectIsolateLoop(_, _, _, _, _)
TransAffectIsolateLoop(st, cf, act, mode, i) ==
    IF i > Len(JobUnitSeq) \/ st.err = "panic" THEN st
    ELSE LET other == JobUnitSeq[i]
         IN  IF IgnoreOnIsolate[other] \/ ~IsUnitEmpty(st.stage, other)
             THEN TransAffectIsolateLoop(st, cf, act, mode, i + 1)
             ELSE LET r == JobTransExpand([st EXCEPT !.err = "ok"], cf, act,
                                          other, "Stop", mode)
                  IN  TransAffectIsolateLoop(
                          [r EXCEPT !.err = IF r.err = "panic" THEN "panic"
                                            ELSE "ok"],
                          cf, act, mode, i + 1)

\* trans_affect_isolate
TransAffectIsolate(st, cf, act, mode) ==
    IF mode # "Isolate" THEN [st EXCEPT !.err = "panic"]
    ELSE TransAffectIsolateLoop(st, cf, act, mode, 1)

\* the loop of trans_affect_trigger; the emptiness test is on 'unit'
RECURSIVE TransAffectTriggerLoop(_, _, _, _, _, _, _)
TransAffectTriggerLoop(st, cf, act, unit, others, mode, i) ==
    IF i > Len(others) \/ st.err = "panic" THEN st
    ELSE IF ~IsUnitEmpty(st.stage, unit)
         THEN TransAffectTriggerLoop(st, cf, act, unit, others, mode, i + 1)
         ELSE LET r == JobTransExpand([st EXCEPT !.err = "ok"], cf, act,
                                      others[i], "Stop", mode)
              IN  TransAffectTriggerLoop(
                      [r EXCEPT !.err = IF r.err = "panic" THEN "panic"
                                        ELSE "ok"],
                      cf, act, unit, others, mode, i + 1)

\* trans_affect_trigger
TransAffectTrigger(st, cf, act, unit, kind, mode) ==
    IF kind # "Stop" \/ mode # "Trigger" THEN [st EXCEPT !.err = "panic"]
    ELSE TransAffectTriggerLoop(st, cf, act, unit,
                                GetsAtom(unit, "TriggeredBy"), mode, 1)

\* job_trans_affect
JobTransAffect(st, cf, act, unit, kind, mode) ==
    CASE mode = "Isolate" -> TransAffectIsolate(st, cf, act, mode)
      [] mode = "Trigger" -> TransAffectTrigger(st, cf, act, unit, kind, mode)
      [] OTHER            -> st

\* ------------------------------------------------------------------- verify

\* the start/stop parts a kind counts as (Restart counts as Start and Stop)
KindParts(kind) ==
    CASE kind = "Start"   -> {"start"}
      [] kind = "Stop"    -> {"stop"}
      [] kind = "Restart" -> {"start", "stop"}
      [] OTHER            -> {}

\* two kinds on the same unit conflict
KindConflict(a, b) ==
    /\ a # b
    /\ \E x \in KindParts(a), y \in KindParts(b) : x # y

\* JobTable::is_suspends_conflict on a set of <<unit, kind>>
IsSuspendsConflict(tbl) ==
    \E j1 \in tbl, j2 \in tbl : j1[1] = j2[1] /\ KindConflict(j1[2], j2[2])

\* the <<unit, kind>> view of the Run Table
RunPairs(run) == {<<j.unit, j.kind>> : j \in run}

\* JobTable::is_suspends_conflict_with(stage)
IsSuspendsConflictWith(run, stg) ==
    \E j \in run, s \in stg : j.unit = s[1] /\ KindConflict(j.kind, s[2])

\* JobTable::is_suspends_replace_with(stage) : every running job a staged
\* job conflicts with can be replaced
IsSuspendsReplaceWith(run, stg) ==
    \A j \in run :
        (\E s \in stg : j.unit = s[1] /\ KindConflict(j.kind, s[2]))
            => ~j.irreversible

\* trans_verify_is_conflict
TransVerifyIsConflict(stg) ==
    IF IsSuspendsConflict(stg) THEN "conflict" ELSE "ok"

\* a destructive check that lets every mode replace
TransVerifyIsDestructiveAnyMode(stg, run, mode) ==
    IF IsSuspendsConflict(RunPairs(run)) THEN "panic"
    ELSE IF ~IsSuspendsConflictWith(run, stg) THEN "ok"
    ELSE IF IsSuspendsReplaceWith(run, stg) THEN "ok"
    ELSE "conflict"

\* trans_verify_is_destructive
TransVerifyIsDestructive(stg, run, mode) ==
    IF IsSuspendsConflict(RunPairs(run)) THEN "panic"
    ELSE IF ~IsSuspendsConflictWith(run, stg) THEN "ok"
    ELSE IF mode # "Fail" /\ IsSuspendsReplaceWith(run, stg) THEN "ok"
    ELSE "conflict"

\* what a verify that merged on the spot would leave in the Run Table
JobTransVerifyDestroying(stg, run, mode) ==
    LET r1 == TransVerifyIsConflict(stg)
        r2 == TransVerifyIsDestructive(stg, run, mode)
    IN  [ret  |-> IF r1 # "ok" THEN r1 ELSE r2,
         jobs |-> {j \in run : ~\E s \in stg :
                        j.unit = s[1] /\ KindConflict(j.kind, s[2])}]

\* job_trans_verify : 'jobs' is borrowed immutably, only a result comes back
JobTransVerify(stg, run, mode) ==
    LET r1 == TransVerifyIsConflict(stg)
    IN  [ret  |-> IF r1 # "ok" THEN r1
                  ELSE TransVerifyIsDestructive(stg, run, mode),
         jobs |-> run]

\* ------------------------------------------------------------------- commit

\* a commit that leaves the jobs it should replace in the Run Table
CommitJobsKeep(stg, run, mode) ==
    run \cup {[unit |-> s[1], kind |-> s[2],
              irreversible |-> (mode = "ReplaceIrreversibly")] : s \in stg}

\* move the suspend table into the Run Table; running jobs a staged job
\* conflicts with are replaced
CommitJobs(stg, run, mode) ==
    {j \in run : ~\E s \in stg : j.unit = s[1] /\ KindConflict(j.kind, s[2])}
    \cup {[unit |-> s[1], kind |-> s[2],
           irreversible |-> (mode = "ReplaceIrreversibly")] : s \in stg}

\* ----------------------------------------------------------------- fallback

NoFallback == [valid |-> FALSE, job |-> [unit |-> "A", kind |-> "Nop",
                                         irreversible |-> FALSE],
               del |-> {}]

\* JobTable::remove_suspends(dep, unit, kind1, Some(kind2), result) : the
\* jobs of the unit with one of the two kinds leave the table and are
\* returned carrying the result
RemoveSuspends(run, del, other, kind1, kind2, result) ==
    LET gone == {j \in run : j.unit = other /\ j.kind \in {kind1, kind2}}
    IN  [jobs |-> run \ gone,
         del  |-> del \cup {[unit |-> j.unit, kind |-> j.kind,
                             result |-> result] : j \in gone}]

\* trans_fallback : one remove_suspends per unit of the atom
RECURSIVE TransFallback(_, _, _, _)
TransFallback(r, others, kinds, i) ==
    IF i > Len(others) THEN r
    ELSE TransFallback(RemoveSuspends(r.jobs, r.del, others[i], kinds[1],
                                      kinds[2], "dependency"),
                       others, kinds, i + 1)

\* the kinds trans_fallback hands to remove_suspends
FallbackKinds == <<"Start", "Verify">>

\* job_trans_fallback that follows PropagateStartFailure for every run-kind
JobTransFallbackStartOnly(run, u, run_kind) ==
    TransFallback([jobs |-> run, del |-> {}],
                  GetsAtom(u, "PropagateStartFailure"), FallbackKinds, 1)

\* job_trans_fallback (with trans_fallback_start / trans_fallback_stop)
JobTransFallback(run, u, run_kind) ==
    CASE run_kind \in {"Start", "Verify"} ->
            TransFallback([jobs |-> run, del |-> {}],
                          GetsAtom(u, "PropagateStartFailure"),
                          FallbackKinds, 1)
      [] run_kind = "Stop" ->
            TransFallback([jobs |-> run, del |-> {}],
                          GetsAtom(u, "PropagateStopFailure"),
                          FallbackKinds, 1)
      [] OTHER -> [jobs |-> run, del |-> {}]

\* ------------------------------------------------------------------ actions

JobInit ==
    /\ load_state = [u \in JobUnits |-> "stub"]
    /\ conf_file = [u \in JobUnits |-> "ok"]
    /\ uactive = {}
    /\ stage = {}
    /\ jobs = {}
    /\ tx = IdleTx
    /\ fallback = NoFallback

\* dispatch_load_queue : a stub unit is loaded
DispatchLoad ==
    /\ tx.pc = "idle"
    /\ \E u \in JobUnits :
        /\ load_state[u] = "stub"
        /\ load_state' = [load_state EXCEPT
                             ![u] = LoadUnit(load_state[u], conf_file[u]).ls]
    /\ UNCHANGED <<conf_file, uactive, stage, jobs, tx>>
    /\ UNCHANGED fallback
    /\ UNCHANGED <<childVars, sockVars, partVars>>

\* the unit files change on disk
ConfChange ==
    /\ tx.pc = "idle"
    /\ \E u \in {"B"}, cf \in ConfFiles :
        /\ conf_file[u] # cf
        /\ conf_file' = [conf_file EXCEPT ![u] = cf]
    /\ UNCHANGED <<load_state, uactive, stage, jobs, tx>>
    /\ UNCHANGED fallback
    /\ UNCHANGED <<childVars, sockVars, partVars>>

\* a unit becomes active or stops being active
ActiveChange ==
    /\ tx.pc = "idle"
    /\ \E u \in {"A"} :
        uactive' = IF u \in uactive THEN uactive \ {u} ELSE uactive \cup {u}
    /\ UNCHANGED <<load_state, conf_file, stage, jobs, tx>>
    /\ UNCHANGED fallback
    /\ UNCHANGED <<childVars, sockVars, partVars>>

\* a running job finishes and leaves the Run Table
JobFinish ==
    /\ tx.pc = "idle"
    /\ \E j \in jobs : jobs' = jobs \ {j}
    /\ UNCHANGED <<load_state, conf_file, uactive, stage, tx>>
    /\ UNCHANGED fallback
    /\ UNCHANGED <<childVars, sockVars, partVars>>

\* a running job fails: it leaves the Run Table and job_trans_fallback runs
\* for its unit and kind
JobFail ==
    /\ tx.pc = "idle"
    /\ \E j \in jobs :
        LET r == JobTransFallback(jobs \ {j}, j.unit, j.kind)
        IN  /\ jobs' = r.jobs
            /\ fallback' = [valid |-> TRUE, job |-> j, del |-> r.del]
    /\ tx' = [tx EXCEPT !.pc = "fallback"]
    /\ UNCHANGED <<load_state, conf_file, uactive, stage>>
    /\ UNCHANGED <<childVars, sockVars, partVars>>

\* the caller of job_trans_fallback is done with the jobs it got back
FallbackDone ==
    /\ tx.pc = "fallback"
    /\ fallback' = NoFallback
    /\ tx' = IdleTx
    /\ UNCHANGED <<load_state, conf_file, uactive, stage, jobs>>
    /\ UNCHANGED <<childVars, sockVars, partVars>>

\* a request arrives: job_trans_expand on an empty suspend table
DoExpand ==
    /\ tx.pc = "idle"
    /\ Cardinality(jobs) <= MaxRunJobs
    /\ \E u \in JobUnits, k \in ReqKinds, m \in ReqModes :
        LET r == JobTransExpand([stage |-> {}, ls |-> load_state,
                                 err |-> "ok", n |-> 0],
                                conf_file, uactive, u, k, m)
        IN  /\ stage' = r.stage
            /\ load_state' = r.ls
            /\ tx' = [pc |-> IF r.err = "ok" THEN "affect" ELSE "abort",
                      unit |-> u, kind |-> k, mode |-> m, ret |-> r.err,
                      pre |-> {}]
    /\ UNCHANGED <<conf_file, uactive, jobs>>
    /\ UNCHANGED fallback
    /\ UNCHANGED <<childVars, sockVars, partVars>>

\* job_trans_affect
DoAffect ==
    /\ tx.pc = "affect"
    /\ LET r == JobTransAffect([stage |-> stage, ls |-> load_state,
                                err |-> "ok", n |-> 0],
                               conf_file, uactive, tx.unit, tx.kind, tx.mode)
       IN  /\ stage' = r.stage
           /\ load_state' = r.ls
           /\ tx' = [tx EXCEPT
                        !.pc = IF r.err = "ok" THEN "verify" ELSE "abort",
                        !.ret = r.err, !.pre = stage]
    /\ UNCHANGED <<conf_file, uactive, jobs>>
    /\ UNCHANGED fallback
    /\ UNCHANGED <<childVars, sockVars, partVars>>

\* job_trans_verify
DoVerify ==
    /\ tx.pc = "verify"
    /\ LET r == JobTransVerify(stage, jobs, tx.mode)
       IN  /\ jobs' = r.jobs
           /\ tx' = [tx EXCEPT
                        !.pc = IF r.ret = "ok" THEN "commit" ELSE "abort",
                        !.ret = r.ret]
    /\ UNCHANGED <<load_state, conf_file, uactive, stage>>
    /\ UNCHANGED fallback
    /\ UNCHANGED <<childVars, sockVars, partVars>>

\* the suspend table is committed to the Run Table
DoCommit ==
    /\ tx.pc = "commit"
    /\ jobs' = CommitJobs(stage, jobs, tx.mode)
    /\ stage' = {}
    /\ tx' = IdleTx
    /\ UNCHANGED <<load_state, conf_file, uactive>>
    /\ UNCHANGED fallback
    /\ UNCHANGED <<childVars, sockVars, partVars>>

\* a failed transaction drops the suspend table
DoAbort ==
    /\ tx.pc = "abort"
    /\ stage' = {}
    /\ tx' = IdleTx
    /\ UNCHANGED <<load_state, conf_file, uactive, jobs>>
    /\ UNCHANGED fallback
    /\ UNCHANGED <<childVars, sockVars, partVars>>

JobNext ==
    \/ DispatchLoad \/ ConfChange \/ ActiveChange \/ JobFinish \/ JobFail
    \/ FallbackDone
    \/ DoExpand \/ DoAffect \/ DoVerify \/ DoCommit \/ DoAbort


\* ============================================================== socket unit

\* number of listeners the socket's configuration declares
NListen == 2

SocketStates == {"StateMax", "Dead", "StartPre", "StartChown", "StartPost",
                 "Listening", "Running", "StopPre", "StopPreSigterm",
                 "StopPreSigkill", "StopPost", "FinalSigterm",
                 "FinalSigkill", "Failed", "Cleaning"}
Hooks == {"StartPre", "StartPost", "StopPre", "StopPost"}
SocketResults == {"Success", "FailureResources", "FailureTimeout",
                  "FailureExitCode", "FailureSignal", "FailureCoreDump",
                  "FailureStartLimitHit"}
ExitResults == {"Success", "FailureExitCode", "FailureSignal",
                "FailureCoreDump"}

\* the [Socket] section of the model's unit file: the Exec* lists (a key
\* that is absent gives no list at all) and the listeners' socket types
ExecCmds ==
    [StartPre  |-> <<<<"StartPre", 1>>, <<"StartPre", 2>>>>,
     StartPost |-> <<<<"StartPost", 1>>>>,
     StopPre   |-> <<>>,
     StopPost  |-> <<<<"StopPost", 1>>>>]
ExecPresent == [h \in Hooks |-> h # "StopPre"]
ListenIsStream == [i \in 1..NListen |-> i = 1]

\* the fd open_port gives to the i-th port
PortFd(i) == 10 + i


\* SocketState::to_unit_active_state with Dead mapped like a stop state
ToUnitActiveStateDeadBusy(st) ==
    CASE st = "Dead" -> "deactivating"
      [] st \in {"StartPre", "StartChown", "StartPost"} -> "activating"
      [] st \in {"Listening", "Running"} -> "active"
      [] st = "Failed" -> "failed"
      [] st = "Cleaning" -> "maintenance"
      [] OTHER -> "deactivating"

\* SocketState::to_unit_active_state
ToUnitActiveState(st) ==
    CASE st = "Dead" -> "inactive"
      [] st \in {"StartPre", "StartChown", "StartPost"} -> "activating"
      [] st \in {"Listening", "Running"} -> "active"
      [] st \in {"StopPre", "StopPreSigterm", "StopPost", "StopPreSigkill",
                 "StateMax", "FinalSigterm", "FinalSigkill"} -> "deactivating"
      [] st = "Failed" -> "failed"
      [] st = "Cleaning" -> "maintenance"

\* SocketMngData::new
NewSock ==
    [state |-> "StateMax", result |-> "Success", cpid |-> 0,
     alive |-> FALSE, ccmd |-> <<>>, ccmd_type |-> "none", refused |-> 0,
     ports |-> <<>>, notified |-> <<"none", "none">>, crashed |-> FALSE,
     started |-> FALSE, flushed |-> FALSE]

NewPort == [fd |-> -1, watched |-> FALSE]

\* SocketPid::unwatch_control
UnwatchControl(s) == [s EXCEPT !.cpid = 0, !.alive = FALSE]

\* SocketPid::set_control after a successful spawn
SetControl(s) == [s EXCEPT !.cpid = 1, !.alive = TRUE]

\* SocketMngData::unwatch_fds : every source is switched off
UnwatchFds(s) ==
    [s EXCEPT !.ports = [i \in DOMAIN s.ports |->
                            [s.ports[i] EXCEPT !.watched = FALSE]]]

\* SocketMngData::watch_fds : sources of ports with an fd are switched on
WatchFds(s) ==
    [s EXCEPT !.ports = [i \in DOMAIN s.ports |->
                            IF s.ports[i].fd < 0 THEN s.ports[i]
                            ELSE [s.ports[i] EXCEPT !.watched = TRUE]]]

\* close_fds that only removes the event sources
CloseFdsKeepOpen(s) ==
    [s EXCEPT !.ports = [i \in DOMAIN s.ports |->
                            [s.ports[i] EXCEPT !.watched = FALSE]]]

\* SocketMngData::close_fds : sources deleted, every port closed
CloseFds(s) ==
    [s EXCEPT !.ports = [i \in DOMAIN s.ports |-> NewPort]]

\* SocketMngData::open_fds : ports are opened in order; when port 'failat'
\* cannot be opened everything is closed again
OpenFds(s, failat) ==
    IF failat \in DOMAIN s.ports
    THEN [ok |-> FALSE, s |-> CloseFds(s)]
    ELSE [ok |-> TRUE,
          s  |-> [s EXCEPT !.ports = [i \in DOMAIN s.ports |->
                                [s.ports[i] EXCEPT !.fd = PortFd(i)]]]]

ControlStates == {"StartPre", "StartChown", "StartPost", "StopPre",
                  "StopPreSigterm", "StopPreSigkill", "StopPost",
                  "FinalSigterm", "FinalSigkill"}
OpenStates == {"StartChown", "StartPost", "Listening", "Running", "StopPre",
               "StopPreSigterm", "StopPreSigkill"}

\* a set_state that keeps watching the control pid in every state
SetStateKeepControl(s, new) ==
    LET s0 == [s EXCEPT !.state = new]
        s2 == IF new # "Listening" THEN UnwatchFds(s0) ELSE s0
        s3 == IF new \notin OpenStates THEN CloseFds(s2) ELSE s2
    IN  [s3 EXCEPT !.notified = <<ToUnitActiveState(s.state),
                                  ToUnitActiveState(new)>>]

\* SocketMngData::set_state
SetState(s, new) ==
    LET s0 == [s EXCEPT !.state = new]
        s1 == IF new \notin ControlStates THEN UnwatchControl(s0) ELSE s0
        s2 == IF new # "Listening" THEN UnwatchFds(s1) ELSE s1
        s3 == IF new \notin OpenStates THEN CloseFds(s2) ELSE s2
    IN  [s3 EXCEPT !.notified = <<ToUnitActiveState(s.state),
                                  ToUnitActiveState(new)>>]

\* SocketMngData::control_command_fill : an absent list leaves the queue
ControlCommandFill(s, hook) ==
    IF ExecPresent[hook] THEN [s EXCEPT !.ccmd = ExecCmds[hook]] ELSE s

\* SocketMngData::control_command_pop : Vec::pop takes the last element
ControlCommandPop(s) == [s EXCEPT !.ccmd = SubSeq(@, 1, Len(@) - 1)]

\* result is only overwritten while it is Success
KeepResult(s, res) ==
    IF s.result = "Success" THEN [s EXCEPT !.result = res] ELSE s

\* Unit::kill_context : delivery failures are logged, Ok is returned
KillContextOk == TRUE

\* an enter_dead that goes back to serving instead of ending the stop
EnterDeadServing(s, res) == SetState(KeepResult(s, res), "Listening")

\* SocketMngData::enter_dead
EnterDead(s, res) ==
    LET s1 == KeepResult(s, res)
    IN  SetState(s1, IF s1.result = "Success" THEN "Dead" ELSE "Failed")

\* SocketState::to_kill_operation
ToKillOperation(st) ==
    IF st = "FinalSigterm" THEN "KillTerminate" ELSE "KillKill"

\* SocketMngData::enter_signal and SocketMngData::enter_stop_post call each
\* other; e.spawn tells which hooks' spawns succeed
RECURSIVE EnterSignal(_, _, _, _)
RECURSIVE EnterStopPost(_, _, _)

\* SocketMngData::enter_signal : the state itself is never entered
EnterSignal(s, st, res, e) ==
    LET s1 == KeepResult(s, res)
    IN  IF ~KillContextOk
        THEN IF st \in {"StopPreSigterm", "StopPreSigkill"}
             THEN EnterStopPost(s1, "FailureResources", e)
             ELSE EnterDead(s1, "FailureResources")
        ELSE CASE st = "StopPreSigterm" ->
                    EnterSignal(s1, "StopPreSigkill", "Success", e)
               [] st = "StopPreSigkill" -> EnterStopPost(s1, "Success", e)
               [] st = "FinalSigterm" ->
                    EnterSignal(s1, "FinalSigkill", "Success", e)
               [] OTHER -> EnterDead(s1, "Success")

\* SocketMngData::enter_stop_post
EnterStopPost(s, res, e) ==
    LET s1 == ControlCommandFill(KeepResult(s, res), "StopPost")
    IN  IF s1.ccmd # <<>>
        THEN LET s2 == ControlCommandPop(s1)
             IN  IF e.spawn["StopPost"]
                 THEN SetState(SetControl(s2), "StopPost")
                 ELSE EnterSignal(s2, "FinalSigterm", "FailureResources", e)
        ELSE EnterSignal(s1, "FinalSigterm", "Success", e)

\* SocketMngData::enter_stop_pre
EnterStopPre(s, res, e) ==
    LET s1 == ControlCommandFill(UnwatchControl(KeepResult(s, res)),
                                 "StopPre")
    IN  IF s1.ccmd # <<>>
        THEN LET s2 == ControlCommandPop(s1)
             IN  IF e.spawn["StopPre"]
                 THEN SetState(SetControl(s2), "StopPre")
                 ELSE EnterStopPost(s2, "FailureResources", e)
        ELSE EnterStopPost(s1, "Success", e)

\* SocketMngData::enter_listening
EnterListening(s) == SetState(WatchFds(s), "Listening")

\* SocketMngData::enter_start_post
EnterStartPost(s, e) ==
    LET s1 == ControlCommandFill(UnwatchControl(s), "StartPost")
    IN  IF s1.ccmd # <<>>
        THEN LET s2 == ControlCommandPop(s1)
             IN  IF e.spawn["StartPost"]
                 THEN SetState(SetControl(s2), "StartPost")
                 ELSE EnterStopPre(s2, "FailureResources", e)
        ELSE EnterListening(s1)

\* SocketMngData::enter_start_chown
EnterStartChown(s, e) ==
    LET o == OpenFds(s, e.openfail)
    IN  IF o.ok THEN EnterStartPost(o.s, e)
        ELSE EnterStopPre(o.s, "FailureResources", e)

\* SocketMngData::enter_start_pre
EnterStartPre(s, e) ==
    LET s1 == ControlCommandFill(UnwatchControl(s), "StartPre")
    IN  IF s1.ccmd # <<>>
        THEN LET s2 == ControlCommandPop(s1)
             IN  IF e.spawn["StartPre"]
                 THEN SetState(SetControl(s2), "StartPre")
                 ELSE EnterDead(s2, "FailureResources")
        ELSE EnterStartChown(s1, e)

\* SocketMngData::run_next : a failed spawn is only logged
RunNext(s, e) ==
    IF s.ccmd # <<>>
    THEN LET s1 == ControlCommandPop(s)
         IN  IF e.spawnnext THEN SetControl(s1) ELSE s1
    ELSE s

\* SocketMngData::enter_running
EnterRunning(s, fd, e) ==
    IF e.stopjob
    THEN IF fd >= 0 THEN [s EXCEPT !.refused = @ + 1]
         ELSE [s EXCEPT !.flushed = TRUE]                   \* flush_ports
    ELSE IF fd < 0
         THEN IF ~e.relact
              THEN IF ~e.target
                   THEN EnterStopPre(s, "FailureResources", e)
                   ELSE LET s1 == [s EXCEPT !.started = TRUE]  \* start_unit
                        IN  IF ~e.startsvc
                            THEN EnterStopPre(s1, "FailureResources", e)
                            ELSE SetState(s1, "Running")
              ELSE SetState(s, "Running")
         ELSE [s EXCEPT !.crashed = TRUE]       \* todo!()

\* SocketMngData::collect_fds : the fds of the open ports
CollectFds(s) == {s.ports[i].fd : i \in {k \in DOMAIN s.ports :
                                            s.ports[k].fd >= 0}}

\* SocketMngData::sigchld_event
SigchldEvent(s, res, e) ==
    IF s.ccmd # <<>> /\ res = "Success" THEN RunNext(s, e)
    ELSE CASE s.state = "StartPre" ->
                IF res = "Success" THEN EnterStartChown(s, e)
                ELSE EnterSignal(s, "FinalSigterm", res, e)
           [] s.state = "StartChown" ->
                IF res = "Success" THEN EnterStartPost(s, e)
                ELSE EnterStopPre(s, res, e)
           [] s.state = "StartPost" ->
                IF res = "Success" THEN EnterListening(s)
                ELSE EnterStopPre(s, res, e)
           [] s.state \in {"StopPre", "StopPreSigterm", "StopPreSigkill"} ->
                EnterStopPost(s, res, e)
           [] s.state \in {"StopPost", "FinalSigterm", "FinalSigkill"} ->
                EnterDead(s, res)
           [] OTHER -> [s EXCEPT !.crashed = TRUE]      \* unreachable!()

\* SocketMngData::db_insert
DbInsert(s, d) ==
    [d EXCEPT !.mng = [state |-> s.state, result |-> s.result,
                       cpid |-> s.cpid, ccmd_type |-> s.ccmd_type,
                       ccmd_len |-> Len(s.ccmd), refused |-> s.refused,
                       rports |-> [i \in DOMAIN s.ports |-> s.ports[i].fd]]]

\* ------------------------------------------------------ Unit::start / stop

ActiveStates == {"inactive", "activating", "active", "reloading",
                 "deactivating", "failed", "maintenance"}

\* a gate that runs the tests on every call
UnitStartGateRetest(active, load, cond_ok, assert_ok) ==
    IF active \in {"active", "reloading"}
    THEN [ret |-> "already", sub |-> FALSE, cond |-> FALSE, assert |-> FALSE]
    ELSE IF active = "maintenance"
    THEN [ret |-> "again", sub |-> FALSE, cond |-> FALSE, assert |-> FALSE]
    ELSE IF load # "loaded"
    THEN [ret |-> "inval", sub |-> FALSE, cond |-> FALSE, assert |-> FALSE]
    ELSE IF ~cond_ok
    THEN [ret |-> "inval", sub |-> FALSE, cond |-> TRUE, assert |-> FALSE]
    ELSE IF ~assert_ok
    THEN [ret |-> "inval", sub |-> FALSE, cond |-> TRUE, assert |-> TRUE]
    ELSE [ret |-> "ok", sub |-> TRUE, cond |-> TRUE, assert |-> TRUE]

\* Unit::start up to the call of the sub-kind: the result when it returns
\* early, whether the sub-kind is called, which tests were evaluated
UnitStartGate(active, load, cond_ok, assert_ok) ==
    IF active \in {"active", "reloading"}
    THEN [ret |-> "already", sub |-> FALSE, cond |-> FALSE, assert |-> FALSE]
    ELSE IF active = "maintenance"
    THEN [ret |-> "again", sub |-> FALSE, cond |-> FALSE, assert |-> FALSE]
    ELSE IF load # "loaded"
    THEN [ret |-> "inval", sub |-> FALSE, cond |-> FALSE, assert |-> FALSE]
    ELSE IF active # "activating" /\ ~cond_ok
    THEN [ret |-> "inval", sub |-> FALSE, cond |-> TRUE, assert |-> FALSE]
    ELSE IF active # "activating" /\ ~assert_ok
    THEN [ret |-> "inval", sub |-> FALSE, cond |-> TRUE, assert |-> TRUE]
    ELSE [ret |-> "ok", sub |-> TRUE,
          cond |-> active # "activating", assert |-> active # "activating"]

\* a gate that answers already whether or not the stop is forced
UnitStopGateNoForce(active, force) ==
    IF active \in {"inactive", "failed"}
    THEN [ret |-> "already", sub |-> FALSE]
    ELSE [ret |-> "ok", sub |-> TRUE]

\* Unit::stop up to the call of the sub-kind
UnitStopGate(active, force) ==
    IF ~force /\ active \in {"inactive", "failed"}
    THEN [ret |-> "already", sub |-> FALSE]
    ELSE [ret |-> "ok", sub |-> TRUE]

StartStates == {"StartPre", "StartChown", "StartPost"}
StopStates == {"StopPre", "StopPreSigterm", "StopPreSigkill", "StopPost",
               "FinalSigterm", "FinalSigkill"}

\* SocketMngData::start_check : the answer and the socket afterwards
StartCheck(s, enabled_ok, limit_ok) ==
    IF s.state \in StopStates \cup {"Cleaning"}
    THEN [ret |-> "again", starting |-> FALSE, s |-> s]
    ELSE IF s.state \in StartStates
    THEN [ret |-> "ok", starting |-> TRUE, s |-> s]
    ELSE IF ~enabled_ok
    THEN [ret |-> "error", starting |-> FALSE, s |-> s]
    ELSE IF ~limit_ok
    THEN [ret |-> "canceled", starting |-> FALSE,
          s |-> EnterDead(s, "FailureStartLimitHit")]
    ELSE [ret |-> "ok", starting |-> FALSE, s |-> s]

\* SocketMngData::stop_check
StopCheck(s, e) ==
    IF s.state \in StopStates
    THEN [ret |-> "ok", stopping |-> TRUE, s |-> s]
    ELSE IF s.state \in StartStates
    THEN [ret |-> "again", stopping |-> FALSE,
          s |-> EnterSignal(s, "StopPreSigterm", "Success", e)]
    ELSE [ret |-> "ok", stopping |-> FALSE, s |-> s]

\* SocketUnit::start : start_check, then SocketMng::start_action with its
\* db_update; out = [ret, action, s, d]
SocketUnitStart(s, d, enabled_ok, limit_ok, e) ==
    LET c == StartCheck(s, enabled_ok, limit_ok)
    IN  IF c.ret # "ok" \/ c.starting
        THEN [ret |-> c.ret, action |-> FALSE, s |-> c.s, d |-> d]
        ELSE LET s1 == EnterStartPre(c.s, e)
             IN  [ret |-> "ok", action |-> TRUE, s |-> s1,
                  d |-> DbInsert(s1, d)]

\* SocketUnit::stop : stop_check unless forced, then SocketMng::stop_action
SocketUnitStop(s, d, force, e) ==
    LET c == IF force THEN [ret |-> "ok", stopping |-> FALSE, s |-> s]
             ELSE StopCheck(s, e)
    IN  IF c.ret # "ok" \/ c.stopping
        THEN [ret |-> c.ret, action |-> FALSE, s |-> c.s, d |-> d]
        ELSE LET s1 == EnterStopPre(c.s, "Success", e)
             IN  [ret |-> "ok", action |-> TRUE, s |-> s1,
                  d |-> DbInsert(s1, d)]

\* ----------------------------------------------------------- socket actions

\* what the environment answers during one handler: which hooks' spawns
\* succeed, whether run_next's spawn does, which port fails to open (0: none),
\* has_stop_job, relation_active_or_pending, the result of start_unit
SpawnAll == [h \in Hooks |-> TRUE]
DefaultEnv == [spawn |-> SpawnAll, spawnnext |-> TRUE, openfail |-> 0,
               stopjob |-> FALSE, relact |-> FALSE, target |-> TRUE,
               startsvc |-> TRUE]
\* no spawn fails, one hook's spawn fails, or every spawn fails
Spawns ==
    {[h \in Hooks |-> h \notin F] : F \in {{}, Hooks} \cup {{h} : h \in Hooks}}
StopSpawns == {sp \in Spawns : sp["StartPre"] /\ sp["StartPost"]}
StartEnvs ==
    {[DefaultEnv EXCEPT !.spawn = sp, !.openfail = f] :
        sp \in Spawns, f \in 0..1}
StopEnvs == {[DefaultEnv EXCEPT !.spawn = sp] : sp \in StopSpawns}
ChildEnvs ==
    {[DefaultEnv EXCEPT !.spawn = sp, !.openfail = f, !.spawnnext = n] :
        sp \in Spawns, f \in 0..1, n \in BOOLEAN}
\* a unit the socket triggers can be active or pending only when the socket
\* has a service to trigger
IoEnvs ==
    {e \in {[DefaultEnv EXCEPT !.spawn = sp, !.stopjob = j, !.relact = a,
                               !.target = t, !.startsvc = v] :
                sp \in StopSpawns, j \in BOOLEAN, a \in BOOLEAN,
                t \in BOOLEAN, v \in BOOLEAN} :
        e.relact => e.target}

\* 'notified' holds the state change the running handler has notified
\* and 'started' / 'flushed' what enter_running asked for
BeforeHandler(s) ==
    [s EXCEPT !.notified = <<"none", "none">>, !.started = FALSE,
              !.flushed = FALSE]

\* a panic ends the manager process: nothing of the object is left
AfterHandler(s) == IF s.crashed THEN [NewSock EXCEPT !.crashed = TRUE] ELSE s

NoCall == [op |-> "none", force |-> FALSE, ret |-> "ok", sub |-> FALSE,
           action |-> FALSE, cond |-> FALSE, assert |-> FALSE,
           cond_ok |-> TRUE, assert_ok |-> TRUE, pre |-> "StateMax",
           load |-> "stub"]

\* the fd accept gives to a connection
AcceptedFd == 100

NoIo == [valid |-> FALSE, port |-> 0, pre |-> "StateMax", accepts |-> 0,
         accepted |-> -1, run_fd |-> -2, stopjob |-> FALSE,
         relact |-> FALSE, target |-> FALSE, startsvc |-> FALSE]

NoSvc == [fds |-> {}]

SockInit ==
    /\ io = NoIo
    /\ svc = NoSvc
    /\ cfg \in [accept : BOOLEAN, cports : {0}, load_state : {"stub"}]
    /\ sock = NewSock
    /\ db = DbInsert(NewSock, [conf |-> 0, mng |-> <<>>])    \* attach_unit
    /\ slast = NoCall

\* SocketMngData::build_ports : one more port per parsed listener
BuildPorts(s, n) == [s EXCEPT !.ports = @ \o [i \in 1..n |-> NewPort]]

\* Unit::load_unit on the socket: SocketConfig::load parses the listeners,
\* SocketMng::build_ports builds the ports and updates the record
SockLoad ==
    /\ ~sock.crashed
    /\ cfg.load_state = "stub"
    /\ LET n  == cfg.cports + NListen
           s1 == BuildPorts(BeforeHandler(sock), n)
       IN  /\ cfg' = [cfg EXCEPT !.cports = n, !.load_state = "loaded"]
           /\ sock' = s1
           /\ db' = DbInsert(s1, [db EXCEPT !.conf = NListen])
    /\ slast' = NoCall
    /\ io' = NoIo
    /\ UNCHANGED svc
    /\ UNCHANGED <<childVars, jobVars, partVars>>

\* start_check is asked only when the unit's tests passed
StartAnswers(tests_ok) == IF tests_ok THEN BOOLEAN ELSE {TRUE}

\* Unit::start on the socket unit
SockUnitStart ==
    /\ ~sock.crashed
    /\ \E cond_ok \in BOOLEAN, assert_ok \in BOOLEAN :
       \E enabled_ok \in StartAnswers(cond_ok /\ assert_ok),
          limit_ok \in StartAnswers(cond_ok /\ assert_ok) :
       \E e \in (IF cond_ok /\ assert_ok /\ enabled_ok /\ limit_ok
                 THEN {x \in StartEnvs : ExecPresent["StartPre"]
                                            => x.openfail = 0}
                 ELSE {DefaultEnv}) :
        LET active == ToUnitActiveState(sock.state)
            g == UnitStartGate(active, cfg.load_state, cond_ok, assert_ok)
            r == IF g.sub
                 THEN SocketUnitStart(BeforeHandler(sock), db, enabled_ok,
                                      limit_ok, e)
                 ELSE [ret |-> g.ret, action |-> FALSE,
                       s |-> BeforeHandler(sock), d |-> db]
        IN  /\ sock' = AfterHandler(r.s)
            /\ db' = r.d
            /\ slast' = [op |-> "start", force |-> FALSE, ret |-> r.ret,
                         sub |-> g.sub, action |-> r.action,
                         cond |-> g.cond, assert |-> g.assert,
                         cond_ok |-> cond_ok, assert_ok |-> assert_ok,
                         pre |-> sock.state, load |-> cfg.load_state]
    /\ UNCHANGED cfg
    /\ io' = NoIo
    /\ UNCHANGED svc
    /\ UNCHANGED <<childVars, jobVars, partVars>>

\* Unit::stop on the socket unit
SockUnitStop ==
    /\ ~sock.crashed
    /\ \E force \in BOOLEAN, e \in StopEnvs :
        LET active == ToUnitActiveState(sock.state)
            g == UnitStopGate(active, force)
            r == IF g.sub
                 THEN SocketUnitStop(BeforeHandler(sock), db, force, e)
                 ELSE [ret |-> g.ret, action |-> FALSE,
                       s |-> BeforeHandler(sock), d |-> db]
        IN  /\ sock' = AfterHandler(r.s)
            /\ db' = r.d
            /\ slast' = [NoCall EXCEPT !.op = "stop", !.force = force,
                            !.ret = r.ret, !.sub = g.sub,
                            !.action = r.action, !.pre = sock.state,
                            !.load = cfg.load_state]
    /\ UNCHANGED cfg
    /\ io' = NoIo
    /\ UNCHANGED svc
    /\ UNCHANGED <<childVars, jobVars, partVars>>

\* the answers sigchld_event can meet: run_next asks for one spawn only;
\* open_fds is reached from StartPre only
SigchldEnvs(s, res) ==
    IF s.ccmd # <<>> /\ res = "Success"
    THEN {e \in ChildEnvs : e.spawn = SpawnAll /\ e.openfail = 0}
    ELSE {e \in ChildEnvs : /\ e.spawnnext
                            /\ s.state # "StartPre" => e.openfail = 0}

\* SocketMng::sigchld_event : the control process exited
SockSigchld ==
    /\ ~sock.crashed
    /\ sock.cpid # 0 /\ sock.alive
    /\ slast' = NoCall
    /\ io' = NoIo
    /\ \E res \in ExitResults : \E e \in SigchldEnvs(sock, res) :
        /\ sock' = AfterHandler(SigchldEvent(
                      [BeforeHandler(sock) EXCEPT !.alive = FALSE], res, e))
        /\ db' = IF sock'.crashed THEN db ELSE DbInsert(sock', db)
    /\ UNCHANGED cfg
    /\ UNCHANGED svc
    /\ UNCHANGED <<childVars, jobVars, partVars>>

\* SocketMngPort::dispatch_io : port i is readable
SockDispatchIo ==
    /\ ~sock.crashed
    /\ \E i \in DOMAIN sock.ports :
       \E accept_ok \in (IF sock.state = "Listening" /\ cfg.accept
                             /\ ListenIsStream[i]
                          THEN BOOLEAN ELSE {TRUE}),
          e \in (IF sock.state = "Listening" THEN IoEnvs ELSE {DefaultEnv}) :
        /\ sock.ports[i].watched /\ sock.ports[i].fd >= 0
        /\ LET can == cfg.accept /\ ListenIsStream[i]
               afd == -1    \* 'let afd: i32 = -1'; the fd accept returns is
                            \* bound to a second afd, local to the if block
               s0  == BeforeHandler(sock)
               rec == [NoIo EXCEPT !.valid = TRUE, !.port = i,
                                   !.pre = sock.state]
           IN  IF sock.state # "Listening"
               THEN /\ sock' = s0 /\ db' = db /\ svc' = svc
                    /\ io' = rec
               ELSE IF can /\ ~accept_ok
               THEN /\ sock' = s0 /\ db' = db /\ svc' = svc
                    /\ io' = [rec EXCEPT !.accepts = 1]
               ELSE LET s1 == EnterRunning(s0, afd, e)
                    IN  /\ sock' = AfterHandler(s1)
                        /\ db' = IF s1.crashed THEN db ELSE DbInsert(s1, db)
                        /\ svc' = svc
                        /\ io' = [rec EXCEPT
                                    !.accepts = IF can THEN 1 ELSE 0,
                                    !.accepted = IF can THEN AcceptedFd
                                                 ELSE -1,
                                    !.run_fd = afd,
                                    !.stopjob = e.stopjob,
                                    !.relact = e.relact,
                                    !.target = e.target,
                                    !.startsvc = e.startsvc]
    /\ slast' = NoCall
    /\ UNCHANGED cfg
    /\ UNCHANGED <<childVars, jobVars, partVars>>

\* the start job enter_running has just queued runs: the triggered service
\* starts and takes the fds the socket collects for it
ServiceStart ==
    /\ ~sock.crashed
    /\ io.valid /\ sock.started /\ io.startsvc
    /\ svc' = [fds |-> CollectFds(sock)]
    /\ io' = NoIo
    /\ UNCHANGED <<cfg, sock, db, slast>>
    /\ UNCHANGED <<childVars, jobVars, partVars>>

\* the triggered service exits: its fds are closed in its process
ServiceExit ==
    /\ svc.fds # {}
    /\ svc' = [svc EXCEPT !.fds = {}]
    /\ io' = NoIo
    /\ UNCHANGED <<cfg, sock, db, slast>>
    /\ UNCHANGED <<childVars, jobVars, partVars>>

\* Reliability::fd_take : an fd that cannot be adopted counts as closed
FdTake(fd, adopt) == IF fd >= 0 /\ adopt THEN fd ELSE -1

\* SocketMngData::control_command_update : TRUE when its assertion holds
ControlCommandUpdateOk(cmd_type, len) == cmd_type # "none" \/ len = 0

\* SocketMngData::control_command_update : the queue afterwards
ControlCommandUpdate(s, cmd_type, len) ==
    IF cmd_type = "none" THEN s
    ELSE LET s1 == ControlCommandFill([s EXCEPT !.ccmd = <<>>], cmd_type)
         IN  [s1 EXCEPT !.ccmd = SubSeq(@, 1, IF len < Len(@) THEN len
                                              ELSE Len(@))]

\* SocketMng::db_map after SocketConfig::db_map on an object with the ports
\* s.ports: build_ports for the n parsed listeners, then the record is
\* mapped back; adopt tells which recorded fds can be taken over
SocketDbMap(s, d, n, adopt, alive) ==
    LET m  == d.mng
        s1 == BuildPorts(s, n)
        s2 == [s1 EXCEPT !.state = m.state, !.result = m.result,
                         !.cpid = m.cpid,
                         !.alive = (m.cpid # 0 /\ alive)]
        s3 == ControlCommandUpdate(s2, m.ccmd_type, m.ccmd_len)
        s4 == [s3 EXCEPT !.refused = m.refused]
    IN  IF ~ControlCommandUpdateOk(m.ccmd_type, m.ccmd_len)
        THEN [s2 EXCEPT !.crashed = TRUE]
        ELSE IF Len(m.rports) # Len(s4.ports)
        THEN [s4 EXCEPT !.crashed = TRUE]
        ELSE [s4 EXCEPT !.ports = [i \in DOMAIN s4.ports |->
                    [s4.ports[i] EXCEPT
                        !.fd = FdTake(m.rports[i], i \in adopt)]]]

\* what recovery can find: only a recorded fd can be adopted, only a
\* recorded control process can be alive
RecordedFds(d) ==
    {i \in 1..NListen : i \in DOMAIN d.mng.rports /\ d.mng.rports[i] >= 0}
RecordedAlive(d) == IF d.mng.cpid # 0 THEN BOOLEAN ELSE {FALSE}

\* Manager::reload : entry_clear, recover (db_map), entry_coldplug on the
\* objects of the running manager
SockReload ==
    /\ ~sock.crashed
    /\ \E adopt \in SUBSET RecordedFds(db), alive \in RecordedAlive(db) :
        LET n  == cfg.cports + db.conf
            s1 == SocketDbMap(UnwatchFds(BeforeHandler(sock)), db, n, adopt,
                              alive)
        IN  /\ cfg' = [cfg EXCEPT !.cports = n]
            /\ sock' = AfterHandler(IF s1.crashed THEN s1 ELSE WatchFds(s1))
    /\ slast' = NoCall
    /\ UNCHANGED db
    /\ io' = NoIo
    /\ UNCHANGED svc
    /\ UNCHANGED <<childVars, jobVars, partVars>>

\* Manager::startup with restore enabled, in a new manager process: the
\* objects are built again, recover maps the record back, entry_coldplug
\* registers the fds
SockRecover ==
    /\ \E adopt \in SUBSET RecordedFds(db), alive \in RecordedAlive(db) :
        LET s1 == SocketDbMap(NewSock, db, db.conf, adopt, alive)
        IN  /\ cfg' = [cfg EXCEPT !.cports = db.conf]
            /\ sock' = AfterHandler(IF s1.crashed THEN s1 ELSE WatchFds(s1))
    /\ slast' = NoCall
    /\ UNCHANGED db
    /\ io' = NoIo
    /\ UNCHANGED svc
    /\ UNCHANGED <<childVars, jobVars, partVars>>

SockNext ==
    \/ SockLoad \/ SockUnitStart \/ SockUnitStop \/ SockSigchld
    \/ SockDispatchIo \/ SockReload \/ SockRecover
    \/ ServiceStart \/ ServiceExit

\* ================================================================= manager

\* before the first manager process: an empty reliability store
MgrInit ==
    /\ reli = [enable |-> FALSE, last_frame |-> "none"]
    /\ mgr = [mode |-> "System", state |-> "Down", ret |-> "none",
              log |-> <<>>, boots |-> 0, pc |-> "rloop", quiet |-> FALSE,
              rebooted |-> "none"]

\* a startup that recovers whatever the reliability layer says
StartupStepsAlways(restore) ==
    <<"recover", "preset_all", "register_ex", "entry_coldplug">>

\* Manager::startup : the calls of a startup that returns Ok, in order
StartupSteps(restore) ==
    (IF restore THEN <<"recover">> ELSE <<>>)
        \o <<"preset_all", "register_ex">>
        \o (IF restore THEN <<"entry_coldplug">> ELSE <<>>)
        \o (IF ~restore THEN <<"add_default_job", "set_restore">> ELSE <<>>)

\* Manager::startup : preset_all fails only in system mode and ends the
\* startup with its error; a failed start_unit of the default target is
\* only logged
ManagerStartup ==
    /\ mgr.state = "Init" /\ mgr.ret = "none"
    /\ \E preset_ok \in BOOLEAN :
        LET restore == reli.enable
            steps == StartupSteps(restore)
        IN  IF mgr.mode = "System" /\ ~preset_ok
            THEN /\ mgr' = [mgr EXCEPT !.ret = "err",
                               !.log = SubSeq(steps, 1,
                                              IF restore THEN 2 ELSE 1)]
                 /\ UNCHANGED reli
            ELSE /\ mgr' = [mgr EXCEPT !.state = "Ok", !.ret = "ok",
                                       !.log = steps]
                 /\ reli' = [enable |-> IF ~restore THEN TRUE
                                        ELSE reli.enable,
                             last_frame |-> "none"]
    /\ UNCHANGED <<childVars, jobVars, sockVars, call, wm>>

\* Manager::rloop : one event is dispatched between set_last_frame1 and
\* clear_last_frame; a command or signal may change the manager's state
ManagerEvent ==
    /\ mgr.state = "Ok"
    /\ \E st \in {"Ok", "ReLoad", "ReExecute", "Reboot", "PowerOff", "Halt",
                  "Suspend"} :
        mgr' = [mgr EXCEPT !.state = st]
    /\ reli' = [reli EXCEPT !.last_frame = "none"]
    /\ UNCHANGED <<childVars, jobVars, sockVars, call, wm>>

\* Manager::rloop : event.run(-1).unwrap() panics, the marker stays set
ManagerPanic ==
    /\ mgr.state = "Ok"
    /\ mgr' = [mgr EXCEPT !.state = "Down"]
    /\ reli' = [reli EXCEPT !.last_frame = "OtherEvent"]
    /\ UNCHANGED <<childVars, jobVars, sockVars, call, wm>>

\* Manager::rloop : the state is not Ok any more, the loop is left and the
\* state returned to main_loop
ManagerLeave ==
    /\ mgr.pc = "rloop"
    /\ mgr.state \notin {"Down", "Init", "Ok"}
    /\ mgr' = [mgr EXCEPT !.pc = "match"]
    /\ UNCHANGED reli
    /\ UNCHANGED <<childVars, jobVars, sockVars, call, wm>>

\* Manager::reload
ManagerReload ==
    /\ mgr.pc = "match" /\ mgr.state = "ReLoad"
    /\ mgr' = [mgr EXCEPT !.state = "Ok", !.pc = "rloop",
                          !.log = <<"entry_clear", "recover",
                                    "entry_coldplug">>]
    /\ reli' = [reli EXCEPT !.last_frame = "none"]
    /\ UNCHANGED <<childVars, jobVars, sockVars, call, wm>>

\* Manager::main_loop : reexec ends the process; so does main after startup
\* returned an error
ManagerExit ==
    /\ (mgr.pc = "match" /\ mgr.state = "ReExecute") \/ mgr.ret = "err"
    /\ mgr' = [mgr EXCEPT !.state = "Down", !.ret = "none"]
    /\ UNCHANGED reli
    /\ UNCHANGED <<childVars, jobVars, sockVars, call, wm>>

\* Manager::main_loop : the reboot mode handed to Manager::reboot per state
RebootModeOf ==
    [Reboot |-> "RB_AUTOBOOT", PowerOff |-> "RB_POWER_OFF",
     Halt |-> "RB_HALT_SYSTEM", KExec |-> "RB_KEXEC",
     Suspend |-> "RB_SW_SUSPEND"]

\* Manager::reboot called from main_loop. SIGTERM goes to every process and
\* they are waited for: if none is left (gone), reboot returns at once and
\* main_loop goes round, the state being what it was; once no process is
\* left, none is left in any later round. Otherwise SIGKILL follows and the
\* system call is made, which ends the manager unless it was a suspend.
ManagerReboot ==
    /\ mgr.pc = "match" /\ mgr.state \in DOMAIN RebootModeOf
    /\ \E gone \in (IF mgr.quiet THEN {TRUE} ELSE BOOLEAN) :
        mgr' = IF gone
               THEN [mgr EXCEPT !.quiet = TRUE, !.pc = "rloop"]
               ELSE IF mgr.state = "Suspend"
               THEN [mgr EXCEPT !.quiet = TRUE, !.pc = "rloop",
                                !.rebooted = RebootModeOf[mgr.state]]
               ELSE [mgr EXCEPT !.state = "Down", !.ret = "none",
                                !.rebooted = RebootModeOf[mgr.state]]
    /\ UNCHANGED reli
    /\ UNCHANGED <<childVars, jobVars, sockVars, call, wm>>

\* Manager::new in a new manager process
ManagerNew ==
    /\ mgr.state = "Down" /\ mgr.boots < MaxBoots
    /\ \E m \in {"System", "User"} :
        mgr' = [mode |-> m, state |-> "Init", ret |-> "none", log |-> <<>>,
                boots |-> mgr.boots + 1, pc |-> "rloop", quiet |-> FALSE,
                rebooted |-> "none"]
    /\ UNCHANGED reli
    /\ UNCHANGED <<childVars, jobVars, sockVars, call, wm>>

MgrNext ==
    \/ ManagerStartup \/ ManagerEvent \/ ManagerPanic \/ ManagerLeave
    \/ ManagerReload \/ ManagerExit \/ ManagerReboot \/ ManagerNew

\* ========================================================= socket library

NoLibCall == [op |-> "none", arg |-> <<>>, res |-> <<>>]

LibInit == call = NoLibCall

\* what the kernel answers to the system calls of one socket_listen
ListenEnvs ==
    [socket : {"ok", "EMFILE"}, setsockopt : {"ok", "ENOPROTOOPT"},
     mkdir : {"ok", "EACCES"}, bind : {"ok", "EADDRINUSE", "EACCES"},
     rebind : {"ok", "EADDRINUSE"}, listen : {"ok", "EOPNOTSUPP"}]

\* SocketAddress::socket_listen for an address with a UNIX path or not, of
\* socket type sa_type: the value returned, whether the fd the call opened
\* is still open, bound, listening, and whether the path was unlinked.
\* `?` returns the error and leaves the raw fd as it is; the result of the
\* first bind of a UNIX path is looked at for EADDRINUSE only
SocketListen(unix, sa_type, e) ==
    LET R(ret, open, bound, lst, unl) ==
            [ret |-> ret, open |-> open, bound |-> bound,
             listening |-> lst, unlinked |-> unl]
        retry == unix /\ e.bind = "EADDRINUSE"
        bound == IF retry THEN e.rebind = "ok" ELSE e.bind = "ok"
    IN  IF e.socket # "ok" THEN R(e.socket, FALSE, FALSE, FALSE, FALSE)
        ELSE IF e.setsockopt # "ok"
        THEN R(e.setsockopt, TRUE, FALSE, FALSE, FALSE)
        ELSE IF unix /\ e.mkdir # "ok"
        THEN R("EINVAL", TRUE, FALSE, FALSE, FALSE)
        ELSE IF retry /\ e.rebind # "ok"
        THEN R(e.rebind, TRUE, FALSE, FALSE, TRUE)
        ELSE IF ~unix /\ e.bind # "ok"
        THEN R(e.bind, TRUE, FALSE, FALSE, FALSE)
        ELSE IF sa_type = "Stream" /\ e.listen # "ok"        \* can_accept
        THEN R(e.listen, TRUE, bound, FALSE, retry)
        ELSE R("fd", TRUE, bound, sa_type = "Stream", retry)

SockTypes == {"Stream", "Datagram", "SeqPacket", "Raw"}

LibSocketListen ==
    /\ call.op = "none"
    /\ \E unix \in BOOLEAN, t \in SockTypes, e \in ListenEnvs :
        call' = [op |-> "socket_listen",
                 arg |-> [unix |-> unix, sa_type |-> t, env |-> e],
                 res |-> SocketListen(unix, t, e)]
    /\ UNCHANGED <<childVars, jobVars, sockVars, reli, mgr, wm>>

\* one nix::sys::signal::kill of kill_context and its follow-up: SIGCONT is
\* sent in the Ok arm of the first kill only (pid 0: no such process given)
KillPid(pid, sig, ok) ==
    IF pid = 0 THEN <<>>
    ELSE <<<<pid, sig>>>> \o
         (IF ok /\ sig \notin {"SIGCONT", "SIGKILL"}
          THEN <<<<pid, "SIGCONT">>>> ELSE <<>>)

ManagerPid == 9

\* Unit::kill_context : the signals sent to the main and the control pid, in
\* order, and those cg_kill_recursive sends with IGNORE_SELF | SIGCONT to
\* the processes of the cgroup that are not in pids_set
KillContext(m_pid, c_pid, sig, cg, ok) ==
    [direct |-> KillPid(m_pid, sig, ok[1]) \o KillPid(c_pid, sig, ok[2]),
     cgroup |-> {<<p, g>> : p \in cg \ {m_pid, c_pid, ManagerPid},
                           g \in {sig} \cup
                                 (IF sig \notin {"SIGCONT", "SIGKILL"}
                                  THEN {"SIGCONT"} ELSE {})}]

LibKillContext ==
    /\ call.op = "none"
    /\ \E m \in {0, 1}, c \in {0, 2}, cg \in SUBSET {1, 2, 3, ManagerPid},
          sig \in {"SIGTERM", "SIGKILL", "SIGCONT"},
          ok \in [1..2 -> BOOLEAN] :
        call' = [op |-> "kill_context",
                 arg |-> [m_pid |-> m, c_pid |-> c, sig |-> sig, cg |-> cg,
                          ok |-> ok],
                 res |-> KillContext(m, c, sig, cg, ok)]
    /\ UNCHANGED <<childVars, jobVars, sockVars, reli, mgr, wm>>

\* SocketConfig::new / SocketConfig::reset : defaults, no service, no ports
DefaultConf == [data |-> "default", service |-> "none", ports |-> 0]

\* what one load meets: whether the files can be read, the Service= key
\* (absent, not ending in .service, naming a unit that cannot be loaded, or
\* fine), whether every listen address parses, and the results of
\* socket_add_extras and socket_verify
LoadEnvs ==
    [read : BOOLEAN, service : {"absent", "suffix", "unloadable", "ok"},
     ports : BOOLEAN, extras : BOOLEAN, verify : BOOLEAN]

\* SocketUnit::load over SocketConfig::load : the configuration afterwards
\* and the step whose error is returned ("ok": none). parse_service and
\* parse_port both run before their results are looked at; a listener that
\* does not parse is the second of the NListen listeners
SocketUnitLoad(c, e) ==
    LET c1 == [c EXCEPT !.data = "file"]
        c2 == IF e.service = "ok" THEN [c1 EXCEPT !.service = "set"] ELSE c1
        c3 == [c2 EXCEPT !.ports = @ + IF e.ports THEN NListen ELSE 1]
        ret1 == e.service \in {"absent", "ok"}
    IN  IF ~e.read THEN [conf |-> c, ret |-> "read"]
        ELSE IF ~ret1 \/ ~e.ports
        THEN [conf |-> DefaultConf,
              ret |-> IF ~ret1 THEN "service" ELSE "ports"]
        ELSE IF ~e.extras THEN [conf |-> DefaultConf, ret |-> "extras"]
        ELSE IF ~e.verify THEN [conf |-> c3, ret |-> "verify"]
        ELSE [conf |-> c3, ret |-> "ok"]

LibLoad ==
    /\ call.op = "none"
    /\ \E e \in LoadEnvs :
        call' = [op |-> "load", arg |-> e,
                 res |-> SocketUnitLoad(DefaultConf, e)]
    /\ UNCHANGED <<childVars, jobVars, sockVars, reli, mgr, wm>>

\* the characters of a listen item; "ip4" stands for an IPv4 literal such as
\* 1.2.3.4 and "ip6" for a bracketed IPv6 literal such as [::1]
ItemChars == {"/", "@", "0", "7", ":", "ip4", "ip6", "x"}
Items == UNION {[1..n -> ItemChars] : n \in 0..MaxItemLen}

RECURSIVE DigitsVal(_)
DigitsVal(q) ==
    IF q = <<>> THEN 0
    ELSE 10 * DigitsVal(SubSeq(q, 1, Len(q) - 1))
            + (IF q[Len(q)] = "7" THEN 7 ELSE 0)

\* a u16 parse without the overflow check
ParseU16Wide(q) ==
    IF q # <<>> /\ \A i \in DOMAIN q : q[i] \in {"0", "7"}
    THEN DigitsVal(q) ELSE -1

\* str::parse::<u16> : the value, or -1 for an error (empty, a character
\* that is no digit, a value above u16::MAX)
ParseU16(q) ==
    IF q # <<>> /\ (\A i \in DOMAIN q : q[i] \in {"0", "7"})
         /\ DigitsVal(q) <= 65535
    THEN DigitsVal(q) ELSE -1

AddrErr == [form |-> "err", name |-> <<>>, port |-> 0, type |-> "none",
            proto |-> "none"]
SockAddr(form, name, port, type) ==
    [form |-> form, name |-> name, port |-> port, type |-> type,
     proto |-> "none"]

\* parse_socket_address ; ipv6 is the answer of ipv6_is_supported
ParseSocketAddress(q, type, ipv6) ==
    IF q # <<>> /\ q[1] = "/" THEN SockAddr("unix", q, 0, type)
    ELSE IF q # <<>> /\ q[1] = "@" THEN SockAddr("abstract", q, 0, type)
    ELSE IF ParseU16(q) >= 0
    THEN IF ParseU16(q) = 0 THEN AddrErr
         ELSE IF ipv6 THEN SockAddr("in6", <<"::">>, ParseU16(q), type)
         ELSE SockAddr("in", <<"0.0.0.0">>, ParseU16(q), type)
    ELSE IF /\ Len(q) >= 3 /\ q[1] \in {"ip4", "ip6"} /\ q[2] = ":"
            /\ ParseU16(SubSeq(q, 3, Len(q))) >= 0      \* SocketAddr
    THEN SockAddr(IF q[1] = "ip4" THEN "in" ELSE "in6", <<q[1]>>,
                  ParseU16(SubSeq(q, 3, Len(q))), type)
    ELSE AddrErr

\* the words of a netlink item: a family of the table, another name, numbers
NetlinkWords == {"route", "kobject-uevent", "bogus", "7", "70"}

\* parse_netlink_address on the words split_whitespace gives
ParseNetlinkAddress(w) ==
    IF Len(w) # 2 THEN AddrErr
    ELSE IF w[1] \notin {"route", "kobject-uevent"} THEN AddrErr
    ELSE IF w[2] \notin {"7", "70"} THEN AddrErr
    ELSE [form |-> "netlink", name |-> <<>>,
          port |-> IF w[2] = "7" THEN 7 ELSE 70, type |-> "Raw",
          proto |-> w[1]]

\* impl fmt::Display for SocketAddress : the text, word by word; it names
\* the socket type and the address family and nothing of the address
Display(a) ==
    <<"sock", "type:", a.type \o ",", "sock", "family:",
      CASE a.form \in {"unix", "abstract"} -> "Unix"
        [] a.form = "in" -> "Inet"
        [] a.form = "in6" -> "Inet6"
        [] OTHER -> "Netlink">>

LibParse ==
    /\ call.op = "none"
    /\ \/ \E q \in Items, t \in {"Stream", "Datagram"}, ipv6 \in BOOLEAN :
            call' = [op |-> "parse",
                     arg |-> [item |-> q, type |-> t, ipv6 |-> ipv6],
                     res |-> ParseSocketAddress(q, t, ipv6)]
       \/ \E w \in UNION {[1..n -> NetlinkWords] : n \in 0..3} :
            call' = [op |-> "parse_netlink", arg |-> [item |-> w],
                     res |-> ParseNetlinkAddress(w)]
    /\ UNCHANGED <<childVars, jobVars, sockVars, reli, mgr, wm>>

\* the call has returned
LibReturn ==
    /\ call.op # "none"
    /\ call' = NoLibCall
    /\ UNCHANGED <<childVars, jobVars, sockVars, reli, mgr, wm>>

LibNext ==
    \/ LibSocketListen
    \/ LibKillContext
    \/ LibLoad
    \/ LibParse
    \/ LibReturn

\* ============================================================ worker manager

\* ids a worker table could hold; create_new_worker uses 0..capacity-1
WorkerIds == 0..WorkersCapacity

\* no worker under this id
NoWorker == [st |-> "None", chan |-> <<>>, alive |-> FALSE, killsent |-> FALSE]

NoSel == [id |-> -1, st |-> "None", killsent |-> FALSE]

\* WorkerManager::new : an empty worker table, the kill timer off
WmInit ==
    wm = [workers |-> [i \in WorkerIds |-> NoWorker], acks |-> <<>>,
          timer |-> FALSE, njobs |-> 0, nkills |-> 0, sel |-> NoSel,
          crashed |-> FALSE]

WorkersLen(ws) == Cardinality({i \in WorkerIds : ws[i].st # "None"})

\* Worker::worker_send_message
WorkerSendMessage(ws, id, msg) == [ws EXCEPT ![id].chan = Append(@, msg)]

\* WorkerManager::set_worker_state
SetWorkerState(ws, id, st) == [ws EXCEPT ![id].st = st]

\* WorkerManager::create_new_worker : the first free id below the capacity;
\* -1 stands for None
CreateNewWorker(ws) ==
    LET free == {i \in 0..(WorkersCapacity - 1) : ws[i].st = "None"}
    IN  IF free = {} THEN [id |-> -1, ws |-> ws]
        ELSE LET id == CHOOSE i \in free : \A j \in free : i <= j
             IN  [id |-> id,
                  ws |-> [ws EXCEPT ![id] = [NoWorker EXCEPT !.st = "Idle",
                                                            !.alive = TRUE]]]

\* WorkerManager::job_dispatch : the outcomes it can have. The table is a
\* HashMap, whose iteration order is not fixed: any Idle worker may be the
\* first one found. sel tells the worker chosen and what it was before.
JobDispatch(ws) ==
    LET idle == {i \in WorkerIds : ws[i].st = "Idle"}
        run(w, id) == WorkerSendMessage(SetWorkerState(w, id, "Running"),
                                        id, "job")
        sel(id) == [id |-> id, st |-> ws[id].st, killsent |-> ws[id].killsent]
    IN  IF idle # {}
        THEN {[ws |-> run(ws, i), sel |-> sel(i)] : i \in idle}
        ELSE IF WorkersLen(ws) < WorkersCapacity
        THEN LET c == CreateNewWorker(ws)
             IN  IF c.id # -1
                 THEN {[ws |-> run(c.ws, c.id), sel |-> sel(c.id)]}
                 ELSE {[ws |-> ws, sel |-> NoSel]}
        ELSE {[ws |-> ws, sel |-> NoSel]}

\* WorkerManager::manager_kill_workers : every worker in the table
ManagerKillWorkers(ws) ==
    [i \in WorkerIds |->
        IF ws[i].st = "None" THEN ws[i]
        ELSE [ws[i] EXCEPT !.st = "Killing", !.chan = Append(@, "kill"),
                           !.killsent = TRUE]]

\* WorkerManager::worker_response_dispose for a well-formed ack: the worker
\* table afterwards; an ack for an id that is not in the table panics
WorkerResponseDispose(ws, kind, id) ==
    IF ws[id].st = "None" THEN [ws |-> ws, crashed |-> TRUE]
    ELSE IF kind = "killed"
    THEN [ws |-> [ws EXCEPT ![id] = NoWorker], crashed |-> FALSE]
    ELSE [ws |-> SetWorkerState(ws, id, "Idle"), crashed |-> FALSE]

\* ControlManager::cmd_process "test" : a device job is inserted and the
\* queue started, which dispatches it if a worker can be had
WmCmdTest ==
    /\ ~wm.crashed /\ wm.njobs < MaxDevJobs
    /\ \E d \in JobDispatch(wm.workers) :
        wm' = [wm EXCEPT !.workers = d.ws, !.sel = d.sel,
                         !.njobs = @ + 1]
    /\ UNCHANGED <<childVars, jobVars, sockVars, reli, mgr, call>>

\* ControlManager::cmd_process "kill" : the one-shot kill timer is armed
WmCmdKill ==
    /\ ~wm.crashed /\ wm.nkills < MaxKills
    /\ wm' = [wm EXCEPT !.timer = TRUE, !.nkills = @ + 1, !.sel = NoSel]
    /\ UNCHANGED <<childVars, jobVars, sockVars, reli, mgr, call>>

\* WorkerManagerKillWorkers::dispatch : the timer expired
WmKillTimer ==
    /\ ~wm.crashed /\ wm.timer
    /\ wm' = [wm EXCEPT !.workers = ManagerKillWorkers(@), !.timer = FALSE,
                        !.sel = NoSel]
    /\ UNCHANGED <<childVars, jobVars, sockVars, reli, mgr, call>>

\* the thread of Worker::new takes the next message: a job is processed and
\* "finished id" sent, on "kill" "killed id" is sent and the loop left
WmWorkerThread ==
    /\ ~wm.crashed
    /\ \E id \in WorkerIds :
        /\ wm.workers[id].alive /\ wm.workers[id].chan # <<>>
        /\ LET msg == Head(wm.workers[id].chan)
           IN  wm' = [wm EXCEPT
                        !.workers[id].chan = Tail(@),
                        !.workers[id].alive = (msg # "kill"),
                        !.acks = Append(@, <<IF msg = "kill" THEN "killed"
                                             ELSE "finished", id>>),
                        !.sel = NoSel]
    /\ UNCHANGED <<childVars, jobVars, sockVars, reli, mgr, call>>

\* WorkerManager::dispatch : the next ack is accepted and disposed of; after
\* "finished" the job queue is started, which dispatches the next device
\* job if one is queued (more)
WmDispatchAck ==
    /\ ~wm.crashed /\ wm.acks # <<>>
    /\ LET ack == Head(wm.acks)
           r   == WorkerResponseDispose(wm.workers, ack[1], ack[2])
       IN  \E more \in (IF ack[1] = "finished" /\ ~r.crashed
                           /\ wm.njobs < MaxDevJobs
                        THEN BOOLEAN ELSE {FALSE}) :
           \E d \in (IF more THEN JobDispatch(r.ws)
                     ELSE {[ws |-> r.ws, sel |-> NoSel]}) :
              wm' = [wm EXCEPT !.workers = d.ws, !.sel = d.sel,
                               !.acks = Tail(@), !.crashed = r.crashed,
                               !.njobs = IF more THEN @ + 1 ELSE @]
    /\ UNCHANGED <<childVars, jobVars, sockVars, reli, mgr, call>>

WmNext ==
    \/ WmCmdTest \/ WmCmdKill \/ WmKillTimer \/ WmWorkerThread
    \/ WmDispatchAck


\* =========================================================== specifications

vars == <<childVars, jobVars, sockVars, partVars>>

Init == ChildInit /\ JobInit /\ SockInit /\ MgrInit /\ LibInit /\ WmInit

\* the child manager alone
SpecChild == Init /\ [][ChildNext]_vars

\* the job engine alone
SpecJob == Init /\ [][JobNext]_vars

\* the socket unit alone
SpecSock == Init /\ [][SockNext]_vars

\* the socket unit inside one manager process (no reload, no restart of the
\* manager), where every control process that was spawned exits in the end
SockRunNext ==
    \/ SockLoad \/ SockUnitStart \/ SockUnitStop \/ SockSigchld
    \/ SockDispatchIo \/ ServiceStart \/ ServiceExit

SpecSockRun == Init /\ [][SockRunNext]_vars /\ WF_vars(SockSigchld)

\* the manager's start, main loop and end
SpecMgr == Init /\ [][MgrNext]_vars

\* devmaster's worker pool: commands, the kill timer, the workers' threads
\* and their acks in every interleaving
SpecWm == Init /\ [][WmNext]_vars

\* the manager process keeps running: a main_loop that can go on does
SpecMgrRun ==
    Init /\ [][MgrNext]_vars
         /\ WF_vars(ManagerLeave) /\ WF_vars(ManagerReboot)

\* the functions of the socket library, each applied to every input
SpecLib == Init /\ [][LibNext]_vars

\* =================================================================== claims

\* C1: every pid in a unit's child_pids set is mapped by the PID index to
\* that same unit, after any sequence of add_watch_pid and unwatch_pid
\* (also for a pid added under a second unit or removed through a unit that
\* does not own it).
C1_ChildPidsIndexed ==
    \A u \in ChildUnits : \A p \in child_pids[u] : GetUnitByPid(p) = u

\* C2: job_trans_verify never changes the Run Table, whatever it returns.
C2_VerifyKeepsRunTable ==
    [][tx.pc = "verify" => jobs' = jobs]_vars

\* a verify that passed although a staged job conflicts with a running one
C2_Witness ==
    /\ tx.pc = "commit"
    /\ jobs # {}
    /\ \E j \in jobs, s \in stage : j.unit = s[1] /\ KindConflict(j.kind, s[2])

\* C3: when job_trans_expand or job_trans_affect returns an error, no Run
\* Table entry and no unit state (load state included) differs from its
\* value before the call.
C3_ExpandErrorLeavesUnits ==
    [][(tx.pc \in {"idle", "affect"} /\ tx'.pc = "abort"
            /\ tx'.ret \in {"input", "badr"})
        => (jobs' = jobs /\ load_state' = load_state /\ uactive' = uactive)]_vars

\* the condition under which the claim expects verify to answer conflict
C4_ConflictExpected(stg, run, mode) ==
    \/ \E s1 \in stg, s2 \in stg : s1[1] = s2[1] /\ KindConflict(s1[2], s2[2])
    \/ /\ \E s \in stg, j \in run : s[1] = j.unit /\ KindConflict(s[2], j.kind)
       /\ \/ mode = "Fail"
          \/ \E s \in stg, j \in run :
                /\ s[1] = j.unit
                /\ KindConflict(s[2], j.kind)
                /\ j.irreversible

\* C4: job_trans_verify returns conflict exactly when the suspend table is
\* internally conflicting, or a suspend job conflicts with a Run Table job
\* of the same unit and (mode = Fail or some such conflict cannot be
\* replaced); otherwise Ok.  With Start A committed, Stop A in mode Fail is
\* rejected with conflict.
C4_VerifyConflictExactly ==
    [][tx.pc = "verify" =>
        /\ tx'.ret = (IF C4_ConflictExpected(stage, jobs, tx.mode)
                      THEN "conflict" ELSE "ok")
        /\ (/\ <<"A", "Stop">> \in stage
            /\ \E j \in jobs : j.unit = "A" /\ j.kind = "Start"
            /\ tx.mode = "Fail") => tx'.ret = "conflict"]_vars

\* Stop A in mode Fail was just rejected while Start A is running
C4_Witness ==
    /\ tx.pc = "abort" /\ tx.ret = "conflict"
    /\ tx.unit = "A" /\ tx.kind = "Stop" /\ tx.mode = "Fail"
    /\ \E j \in jobs : j.unit = "A" /\ j.kind = "Start"


\* the socket without the record of what the last handler notified
SockCore(s) ==
    [s EXCEPT !.notified = <<"none", "none">>, !.started = FALSE,
              !.flushed = FALSE]

\* C5: in every reachable state (after any sequence of start, stop, control
\* process exit, port I/O dispatch, reload and recovery) a socket in Listening
\* has every port with fd >= 0 enabled in the event loop, and a socket in a
\* state other than Listening and Running has no port event source enabled.
C5_WatchedIffServing ==
    ~sock.crashed =>
        /\ sock.state = "Listening" =>
                \A i \in DOMAIN sock.ports :
                    sock.ports[i].fd >= 0 => sock.ports[i].watched
        /\ sock.state \notin {"Listening", "Running"} =>
                \A i \in DOMAIN sock.ports : ~sock.ports[i].watched

\* the states the claim lists
C6_ClosedStates == {"Dead", "Failed", "StartPre", "StopPost", "FinalSigterm",
                    "FinalSigkill", "Cleaning"}

\* C6: whenever a socket operation has returned and the state is Dead,
\* Failed, StartPre, StopPost, FinalSigterm, FinalSigkill or Cleaning, every
\* port's fd is < 0; no fd stays open after a failed start or a completed
\* stop.
C6_FdsClosedWhenNotOpenState ==
    (~sock.crashed /\ sock.state \in C6_ClosedStates) =>
        \A i \in DOMAIN sock.ports : sock.ports[i].fd < 0

\* a stop of a socket whose ports were open is running its ExecStopPost
C6_Witness ==
    /\ sock.state = "StopPost"
    /\ sock.notified = <<"active", "deactivating">>
    /\ Len(sock.ports) = NListen
    /\ db.mng.state = "StopPost"

\* the mapping the claim lists
C7_Expected(st) ==
    CASE st = "Dead" -> "inactive"
      [] st \in {"StartPre", "StartChown", "StartPost"} -> "activating"
      [] st \in {"Listening", "Running"} -> "active"
      [] st \in {"StopPre", "StopPreSigterm", "StopPreSigkill", "StopPost",
                 "FinalSigterm", "FinalSigkill"} -> "deactivating"
      [] st = "Failed" -> "failed"
      [] st = "Cleaning" -> "maintenance"
      [] OTHER -> "unlisted"

\* C7: to_unit_active_state maps Dead to inactive; StartPre, StartChown,
\* StartPost to activating; Listening, Running to active; StopPre,
\* StopPreSigterm, StopPreSigkill, StopPost, FinalSigterm, FinalSigkill to
\* deactivating; Failed to failed; Cleaning to maintenance -- for every
\* state, and so for the state a handler has just notified.
C7_ActiveStateMapping ==
    /\ \A st \in SocketStates \ {"StateMax"} :
            ToUnitActiveState(st) = C7_Expected(st)
    /\ (sock.notified[2] # "none" /\ sock.state # "StateMax") =>
            sock.notified[2] = C7_Expected(sock.state)

\* the socket has just gone from StartPost to Listening
C7_Witness ==
    /\ sock.state = "Listening"
    /\ sock.notified = <<"activating", "active">>

\* what the claim says of the part of Unit::start before the sub-kind
C8_GateTable ==
    \A a \in ActiveStates, l \in {"stub", "loaded", "not-found"},
       c \in BOOLEAN, t \in BOOLEAN :
        LET g == UnitStartGate(a, l, c, t)
            early == a \in {"active", "reloading", "maintenance"}
        IN  /\ a \in {"active", "reloading"} =>
                    (g.ret = "already" /\ ~g.sub)
            /\ a = "maintenance" => (g.ret = "again" /\ ~g.sub)
            /\ (~early /\ l # "loaded") => (g.ret = "inval" /\ ~g.sub)
            /\ (~early /\ l = "loaded" /\ a # "activating" /\ ~(c /\ t)) =>
                    (g.ret = "inval" /\ ~g.sub)
            /\ (g.cond \/ g.assert) => a # "activating"
            /\ (~early /\ l = "loaded" /\ a # "activating") => g.cond
            /\ (~early /\ l = "loaded" /\ a = "activating") => g.sub

\* C8: Unit::start returns already, without calling the sub-kind and without
\* any state change, when the unit is active or reloading; again when it is
\* in maintenance; invalid when it is not loaded or a condition/assert test
\* fails; the tests are evaluated only when the unit is not activating; a
\* socket in StartPre/StartChown/StartPost gets Ok without start_action.
C8_StartGate ==
    [][C8_GateTable /\
       (slast'.op = "start" =>
        LET a == C7_Expected(slast'.pre)
            early == a \in {"active", "reloading", "maintenance"}
        IN  /\ a \in {"active", "reloading"} =>
                /\ slast'.ret = "already" /\ ~slast'.sub
                /\ SockCore(sock') = SockCore(sock) /\ db' = db
            /\ a = "maintenance" => slast'.ret = "again"
            /\ (~early /\ slast'.load # "loaded") => slast'.ret = "inval"
            /\ (~early /\ slast'.load = "loaded" /\ a # "activating"
                    /\ ~(slast'.cond_ok /\ slast'.assert_ok)) =>
                (slast'.ret = "inval" /\ ~slast'.sub)
            /\ (slast'.cond \/ slast'.assert) => a # "activating"
            /\ (slast'.pre \in StartStates /\ slast'.load = "loaded") =>
                /\ slast'.ret = "ok" /\ slast'.sub /\ ~slast'.action
                /\ ~slast'.cond /\ ~slast'.assert
                /\ SockCore(sock') = SockCore(sock) /\ db' = db)]_vars

\* start was called on a socket waiting for its ExecStartPost, with a
\* condition that would fail: Ok, nothing evaluated, nothing done
C8_Witness ==
    /\ slast.op = "start" /\ slast.pre = "StartPost"
    /\ ~slast.cond_ok /\ ~slast.cond
    /\ slast.ret = "ok" /\ slast.sub /\ ~slast.action
    /\ sock.state = "StartPost"

\* what the claim says of the part of Unit::stop before the sub-kind
C9_GateTable ==
    \A a \in ActiveStates, f \in BOOLEAN :
        LET g == UnitStopGate(a, f)
        IN  IF ~f /\ a \in {"inactive", "failed"}
            THEN g.ret = "already" /\ ~g.sub
            ELSE g.sub

\* C9: Unit::stop(force = false) on an inactive or failed unit returns
\* already and does not invoke the sub-kind; in every other case, and always
\* when forced, the sub-kind's stop is invoked; a non-forced stop of a socket
\* in a stop state returns Ok without running stop_action again.
C9_StopGate ==
    [][C9_GateTable /\
       (slast'.op = "stop" =>
        LET a == ToUnitActiveState(slast'.pre)
        IN  /\ (~slast'.force /\ a \in {"inactive", "failed"}) =>
                /\ slast'.ret = "already" /\ ~slast'.sub /\ ~slast'.action
                /\ SockCore(sock') = SockCore(sock) /\ db' = db
            /\ (slast'.force \/ a \notin {"inactive", "failed"}) =>
                slast'.sub
            /\ (~slast'.force /\ slast'.pre \in StopStates) =>
                /\ slast'.ret = "ok" /\ ~slast'.action
                /\ SockCore(sock') = SockCore(sock) /\ db' = db)]_vars

\* a non-forced stop was called on a socket running its ExecStopPost
C9_Witness ==
    /\ slast.op = "stop" /\ ~slast.force /\ slast.pre = "StopPost"
    /\ slast.ret = "ok" /\ slast.sub /\ ~slast.action
    /\ sock.state = "StopPost"

\* C10: when start is attempted on a loaded unit that is not yet activating
\* (here: an inactive one), a failing assert test makes the unit's active
\* state failed, and a failing condition test leaves the unit inactive.
C10_TestFailureMarksUnit ==
    [][(/\ slast'.op = "start"
        /\ slast'.load = "loaded"
        /\ ToUnitActiveState(slast'.pre) = "inactive") =>
        /\ (slast'.cond_ok /\ ~slast'.assert_ok) =>
                ToUnitActiveState(sock'.state) = "failed"
        /\ ~slast'.cond_ok =>
                ToUnitActiveState(sock'.state) = "inactive"]_vars


\* the jobs the suspend table holds for a unit
StageOf(stg, u) == {j \in stg : j[1] = u}

\* C11: after the affect phase in mode Isolate (here with every unit loaded)
\* the suspend table holds a Stop job for every unit that has
\* IgnoreOnIsolate = false and had no job before the phase, the jobs of every
\* unit with IgnoreOnIsolate = true are the same as before the phase, and the
\* phase does not fail.
C11_IsolateStopsOthersOnly ==
    [][(/\ tx.pc = "affect" /\ tx.mode = "Isolate"
        /\ \A u \in JobUnits : load_state[u] = "loaded") =>
        /\ tx'.pc = "verify"
        /\ \A u \in JobUnits :
            (~IgnoreOnIsolate[u] /\ IsUnitEmpty(stage, u)) =>
                <<u, "Stop">> \in stage'
        /\ \A u \in JobUnits :
            IgnoreOnIsolate[u] => StageOf(stage', u) = StageOf(stage, u)]_vars


\* the units of a sequence
Range(q) == {q[i] : i \in DOMAIN q}

\* C12: after the affect phase in mode Trigger for a Stop job on unit U
\* (every unit loaded), every unit related to U by TriggeredBy that had no
\* job in the suspend table before the phase has a Stop job in it.
C12_TriggerStopsTriggeredBy ==
    [][(/\ tx.pc = "affect" /\ tx.mode = "Trigger" /\ tx.kind = "Stop"
        /\ \A u \in JobUnits : load_state[u] = "loaded") =>
        \A o \in Range(GetsAtom(tx.unit, "TriggeredBy")) :
            IsUnitEmpty(stage, o) => <<o, "Stop">> \in stage']_vars

\* C13: job_trans_expand on a job whose mapped kind is Verify, TryRestart,
\* TryReload or Nop records the job and returns Ok without expanding; so a
\* Start request on a loaded unit whose PullInVerify units are loaded ends
\* normally, in every mode, with their Verify jobs in the suspend table.
C13_VerifyIsTerminal ==
    [][(/\ tx.pc = "idle" /\ tx'.pc # "idle" /\ tx'.kind = "Start"
        /\ GetsAtom(tx'.unit, "PullInVerify") # <<>>
        /\ \A u \in JobUnits : load_state[u] = "loaded") =>
        /\ tx'.ret = "ok"
        /\ \A o \in Range(GetsAtom(tx'.unit, "PullInVerify")) :
                <<o, "Verify">> \in stage']_vars


\* the units a Start of u reaches, in the order of the expansion, with the
\* kind requested and whether the claim counts the edge as Ignored
C14_Edges(u) ==
    LET E(atom, kind, ign) ==
            [i \in DOMAIN GetsAtom(u, atom) |->
                [unit |-> GetsAtom(u, atom)[i], kind |-> kind,
                 ignored |-> ign]]
    IN  E("PullInStart", "Start", FALSE)
        \o E("PullInStartIgnored", "Start", TRUE)
        \o E("PullInVerify", "Verify", FALSE)
        \o E("PullInStop", "Stop", FALSE)
        \o E("PullInStopIgnored", "Stop", TRUE)

\* some unit reached through an edge that is not Ignored fails its own
\* expansion with an error other than bad-request
RECURSIVE C14_SomeCalleeFails(_, _, _, _, _, _)
C14_SomeCalleeFails(st, cf, act, edges, mode, i) ==
    IF i > Len(edges) THEN FALSE
    ELSE LET r == JobTransExpand([st EXCEPT !.err = "ok"], cf, act,
                                 edges[i].unit, edges[i].kind, mode)
         IN  \/ ~edges[i].ignored /\ r.err \notin {"ok", "badr"}
             \/ C14_SomeCalleeFails(r, cf, act, edges, mode, i + 1)

\* C14: expanding a Start job (whose own input check passed) fails if and
\* only if some unit reached through PullInStart, PullInVerify or PullInStop
\* fails its own expansion with an error other than bad-request; failures on
\* the Ignored edges and bad-request on any edge never make it fail.
C14_StartFailsIffCalleeFails ==
    [][(/\ tx.pc = "idle" /\ tx'.pc # "idle" /\ tx'.kind = "Start"
        /\ TransExpandCheckInput(load_state, conf_file, tx'.unit,
                                 "Start").err = "ok") =>
        LET u  == tx'.unit
            ci == TransExpandCheckInput(load_state, conf_file, u, "Start")
            s0 == [stage |-> {<<u, "Start">>}, ls |-> ci.ls, err |-> "ok",
                   n |-> 1]
        IN  /\ (tx'.ret # "ok") <=>
                    C14_SomeCalleeFails(s0, conf_file, uactive,
                                        C14_Edges(u), tx'.mode, 1)
            /\ tx'.ret # "badr"]_vars

\* Start A went through although B, pulled in by PullInStart, answered
\* bad-request and C, on an Ignored edge, is not loaded
C14_Witness ==
    /\ tx.pc = "affect" /\ tx.kind = "Start" /\ tx.unit = "A"
    /\ load_state["B"] = "not-found" /\ conf_file["B"] = "bad"
    /\ load_state["C"] = "stub"
    /\ stage = {<<"A", "Start">>}


\* the step that expands a request of kind k whose own input check passed
C15_Expands(k) ==
    /\ tx.pc = "idle" /\ tx'.pc # "idle" /\ tx'.kind = k
    /\ TransExpandCheckInput(load_state, conf_file, tx'.unit, k).err = "ok"

\* the suspend table after the start pull-in expansion of a root job <<u, k>>
C15_StartPart(u, k) ==
    LET ci == TransExpandCheckInput(load_state, conf_file, u, k)
    IN  RunExpandLoops([stage |-> {<<u, k>>}, ls |-> ci.ls, err |-> "ok",
                        n |-> 1],
                       conf_file, uactive, u, TransExpandStart, tx'.mode, 1)

\* C15: expanding Restart X performs X's start pull-in expansion, requests
\* TryRestart (recorded as Restart or Nop by the unit's active state) for
\* every unit of PropagateRestart(X) and nothing along PropagateStop;
\* expanding Stop X requests Stop for every unit of PropagateStop(X);
\* expanding Reload X requests TryReload along PropagatesReloadTo(X) and
\* never fails because of them.
C15_PropagationByKind ==
    [][/\ (C15_Expands("Restart") /\ tx'.ret = "ok") =>
            LET u  == tx'.unit
                sp == C15_StartPart(u, "Restart")
            IN  /\ sp.err = "ok" /\ sp.stage \subseteq stage'
                /\ \A o \in Range(GetsAtom(u, "PropagateRestart")) :
                      load_state'[o] = "loaded" =>
                        <<o, JobConfMap(uactive, o, "TryRestart")>> \in stage'
                /\ \A o \in Range(GetsAtom(u, "PropagateStop")) :
                      <<o, "Stop">> \in stage' => <<o, "Stop">> \in sp.stage
       /\ (C15_Expands("Stop") /\ tx'.ret = "ok") =>
            \A o \in Range(GetsAtom(tx'.unit, "PropagateStop")) :
                <<o, "Stop">> \in stage'
       /\ C15_Expands("Reload") =>
            /\ tx'.ret = "ok"
            /\ \A o \in Range(GetsAtom(tx'.unit, "PropagatesReloadTo")) :
                  load_state'[o] = "loaded" =>
                    <<o, JobConfMap(uactive, o, "TryReload")>> \in stage']_vars

\* Restart B went through with A active: A, reached along PropagateRestart,
\* got a Restart job and no Stop job
C15_Witness ==
    /\ tx.pc = "affect" /\ tx.kind = "Restart" /\ tx.unit = "B"
    /\ "A" \in uactive
    /\ <<"A", "Restart">> \in stage /\ <<"A", "Stop">> \notin stage


\* the jobs the claim expects a fallback for job j to remove from run
C16_Removed(run, j) ==
    LET atom == CASE j.kind \in {"Start", "Verify"} -> "PropagateStartFailure"
                  [] j.kind = "Stop" -> "PropagateStopFailure"
                  [] OTHER -> "none"
        units == IF atom = "none" THEN {} ELSE Range(GetsAtom(j.unit, atom))
    IN  {o \in run : o.unit \in units /\ o.kind \in {"Start", "Verify"}}

C17_AcceptedFdHandedOn ==
    (io.valid /\ io.pre = "Listening") =>
        IF cfg.accept /\ ListenIsStream[io.port]
        THEN /\ io.accepts = 1
             /\ io.accepted >= 0 => io.run_fd = io.accepted
        ELSE io.accepts = 0 /\ io.run_fd = -1


\* the states of the stop path, from StopPre on
C18_StopPath == {"StopPre", "StopPreSigterm", "StopPreSigkill", "StopPost",
                 "FinalSigterm", "FinalSigkill", "Dead", "Failed"}

\* C18: from Listening with no pending stop job, enter_running(-1) requests
\* the start of the triggered service exactly when that service is not
\* already active or pending, and then the socket is Running; with no
\* triggered service, or when the start request fails, the result is
\* failure-resources and the socket is on the stop path, not Running.
C18_RunningOrStopPath ==
    (io.valid /\ io.pre = "Listening" /\ io.run_fd = -1 /\ ~io.stopjob) =>
        /\ ~sock.crashed
        /\ sock.started <=> (~io.relact /\ io.target)
        /\ IF ~io.relact /\ (~io.target \/ ~io.startsvc)
           THEN /\ sock.result = "FailureResources"
                /\ sock.state \in C18_StopPath
                /\ sock.notified[1] = "active"
                /\ sock.notified[2] \in {"deactivating", "inactive", "failed"}
           ELSE /\ sock.state = "Running"
                /\ sock.notified = <<"active", "active">>


\* C19: while the triggered unit has a pending stop job, a connection coming
\* in on a Listening socket never starts the service and never changes the
\* socket's state; if a connection was accepted (fd >= 0) the refused count
\* goes up by exactly one, otherwise the port queues are flushed; and after
\* the dispatch the persisted refused count equals the one in memory.
C19_BackPressure ==
    [][(io'.valid /\ io'.pre = "Listening" /\ io'.stopjob
            /\ io'.run_fd # -2) =>
        /\ ~sock'.started /\ sock'.state = "Listening"
        /\ IF io'.accepted >= 0
           THEN sock'.refused = sock.refused + 1 /\ ~sock'.flushed
           ELSE sock'.refused = sock.refused /\ sock'.flushed
        /\ db'.mng.refused = sock'.refused]_vars


\* C20: after the socket hands its listening fds to the triggered service,
\* each handed-over port's fd is -1 in the socket until the service releases
\* it or dies: no fd is at once a port fd of the socket and held by the
\* service.
C20_HandedFdsLeaveSocket ==
    ~sock.crashed =>
        \A i \in DOMAIN sock.ports :
            sock.ports[i].fd >= 0 => sock.ports[i].fd \notin svc.fds


\* the place of a state on the stop path; 0 for every other state
C21_Rank(st) ==
    CASE st = "StopPre" -> 1 [] st = "StopPreSigterm" -> 2
      [] st = "StopPreSigkill" -> 3 [] st = "StopPost" -> 4
      [] st = "FinalSigterm" -> 5 [] st = "FinalSigkill" -> 6
      [] st \in {"Dead", "Failed"} -> 7 [] OTHER -> 0

C22_HookStateHasCommand ==
    (~sock.crashed /\ sock.state \in {"StartPre", "StartPost", "StopPre",
                                      "StopPost"}) =>
        (sock.cpid # 0 /\ sock.alive)

\* C23: after every socket operation that changes the socket's state or
\* result (start, stop, control-process exit, port I/O dispatch, a start
\* rejected on the start limit and a non-forced stop while activating
\* included), the persisted record's state, result and refused count equal
\* the in-memory values when the operation returns
C23_RecordFollowsSocket ==
    [][(/\ ~sock'.crashed
        /\ <<sock'.state, sock'.result, sock'.refused>> #
               <<sock.state, sock.result, sock.refused>>) =>
           /\ db'.mng.state = sock'.state
           /\ db'.mng.result = sock'.result
           /\ db'.mng.refused = sock'.refused]_vars

\* C24: for every snapshot written by db_insert, db_map on a freshly
\* constructed socket restores the same state, result, refused count,
\* remaining control-command queue and per-port fd, without a failed
\* assertion, also while commands of a hook are still queued
C24_SnapshotRoundTrip ==
    (~sock.crashed /\ db = DbInsert(sock, db)) =>
        LET r == SocketDbMap(NewSock, db, db.conf, RecordedFds(db), TRUE)
        IN  /\ ~r.crashed
            /\ r.state = sock.state
            /\ r.result = sock.result
            /\ r.refused = sock.refused
            /\ r.ccmd = sock.ccmd
            /\ [k \in DOMAIN r.ports |-> r.ports[k].fd] =
                   [k \in DOMAIN sock.ports |-> sock.ports[k].fd]

C25_Pos(q, x) == IF x \in Range(q) THEN CHOOSE k \in DOMAIN q : q[k] = x ELSE 0

C26_ListenAllOrNothing ==
    call.op = "socket_listen" =>
        LET a == call.arg
            e == a.env
            r == call.res
            retry == a.unix /\ e.bind = "EADDRINUSE"
            failed ==
                IF e.socket # "ok" THEN e.socket
                ELSE IF e.setsockopt # "ok" THEN e.setsockopt
                ELSE IF a.unix /\ e.mkdir # "ok" THEN e.mkdir
                ELSE IF ~retry /\ e.bind # "ok" THEN e.bind
                ELSE IF retry /\ e.rebind # "ok" THEN e.rebind
                ELSE IF a.sa_type \in {"Stream", "SeqPacket"}
                        /\ e.listen # "ok" THEN e.listen
                ELSE "none"
        IN  /\ r.unlinked = retry \/ r.ret # "fd"
            /\ IF failed = "none"
               THEN /\ r.ret = "fd" /\ r.bound
                    /\ a.sa_type \in {"Stream", "SeqPacket"} => r.listening
               ELSE r.ret = failed /\ ~r.open

\* C27: kill_context sends the operation's signal to each given pid (main,
\* control) and, when the cgroup is not empty, to every process of the
\* cgroup except the manager; every pid it signals with a signal other than
\* SIGCONT and SIGKILL also gets SIGCONT afterwards, whether or not the
\* first signal was delivered
C27_SignalThenCont ==
    call.op = "kill_context" =>
        LET a == call.arg
            d == call.res.direct
            given == {a.m_pid, a.c_pid} \ {0}
            cont == a.sig \notin {"SIGCONT", "SIGKILL"}
        IN  /\ \A p \in given : \E i \in DOMAIN d :
                    /\ d[i] = <<p, a.sig>>
                    /\ cont => \E j \in DOMAIN d :
                                  j > i /\ d[j] = <<p, "SIGCONT">>
            /\ \A p \in a.cg \ (given \cup {ManagerPid}) :
                    /\ <<p, a.sig>> \in call.res.cgroup
                    /\ cont => <<p, "SIGCONT">> \in call.res.cgroup
            /\ \A x \in call.res.cgroup : x[1] # ManagerPid

\* C28: if loading a socket unit fails at any step (configuration read, a
\* Service= value that does not end in .service or cannot be loaded, a
\* listen address that does not parse, add-extras, verify), the socket's
\* configuration afterwards holds defaults with no service reference and no
\* ports, and the error returned is that of the first failing step
C28_FailedLoadResets ==
    call.op = "load" =>
        LET e == call.arg
            first == IF ~e.read THEN "read"
                     ELSE IF e.service \in {"suffix", "unloadable"}
                     THEN "service"
                     ELSE IF ~e.ports THEN "ports"
                     ELSE IF ~e.extras THEN "extras"
                     ELSE IF ~e.verify THEN "verify"
                     ELSE "ok"
        IN  /\ call.res.ret = first
            /\ first # "ok" => call.res.conf = DefaultConf

C29_Decimal(q) ==
    IF q # <<>> /\ \A i \in DOMAIN q : q[i] \in {"0", "7"}
    THEN DigitsVal(q) ELSE -1

C30_PrintParseRoundTrip ==
    /\ (call.op = "parse" /\ call.res.form # "err") =>
            ParseSocketAddress(Display(call.res), call.arg.type,
                               call.arg.ipv6) = call.res
    /\ (call.op = "parse_netlink" /\ call.res.form # "err") =>
            ParseNetlinkAddress(Display(call.res)) = call.res

C31_Size(wp) == Cardinality({p \in Pids : wp[p] # NoUnit})

\* C31: after add_watch_pid(id, pid) for a registered unit get_unit_by_pid
\* returns that unit and the PID index grows by exactly one entry when pid
\* was not present; after unwatch_pid the lookup returns none and the index
\* shrinks by exactly one entry (when pid was present); a pid that was never
\* added is looked up as none; add_watch_pid for an id that is not
\* registered aborts without adding anything to the index
C31_IndexAddRemove ==
    [][/\ (clast'.op = "add" /\ clast'.id \in ChildUnits) =>
            /\ clast'.ret = "ok"
            /\ watch_pids'[clast'.pid] = clast'.id
            /\ C31_Size(watch_pids') = C31_Size(watch_pids) +
                   (IF watch_pids[clast'.pid] = NoUnit THEN 1 ELSE 0)
       /\ (clast'.op = "unwatch" /\ clast'.id \in ChildUnits) =>
            /\ watch_pids'[clast'.pid] = NoUnit
            /\ C31_Size(watch_pids') = C31_Size(watch_pids) -
                   (IF watch_pids[clast'.pid] = NoUnit THEN 0 ELSE 1)
       /\ (clast'.op = "add" /\ clast'.id \notin ChildUnits) =>
            /\ clast'.ret = "panic"
            /\ watch_pids' = watch_pids
       /\ \A p \in Pids :
            (watch_pids[p] = NoUnit
                /\ ~(clast'.op = "add" /\ clast'.pid = p))
                    => watch_pids'[p] = NoUnit]_vars

\* a pid was added for one unit and removed again
C31_Witness ==
    /\ clast.op = "unwatch" /\ clast.ret = "ok"
    /\ watch_pids[clast.pid] = NoUnit
    /\ C31_Size(watch_pids) = 1

C34_NeverStartedIsDead ==
    /\ sock.state = "Dead"
    /\ ToUnitActiveState(sock.state) = "inactive"
    /\ [][/\ (cfg.load_state = "stub" /\ cfg'.load_state = "loaded") =>
                sock'.state = sock.state
          /\ (/\ slast'.op = "stop" /\ ~slast'.force
              /\ slast'.pre = NewSock.state) =>
                /\ slast'.ret = "already" /\ ~slast'.action
                /\ sock'.state = sock.state]_vars


\* C35: the result of an earlier run does not carry over to a later run: a
\* socket that is started again from Failed starts its new run with result
\* Success, and a socket that was brought to Listening holds result Success,
\* so that a stop whose commands all succeed ends in Dead (enter_dead keeps
\* a result other than Success and then chooses Failed)
C35_ResultNotCarriedOver ==
    /\ [](sock.state = "Listening" => sock.result = "Success")
    /\ [][(/\ sock.state = "Failed" /\ slast'.op = "start" /\ slast'.action
           /\ sock'.state \in StartStates \cup {"Listening"}) =>
                sock'.result = "Success"]_vars


\* C36: every control command spawned while entering or being in a hook
\* belongs to that hook's configured list: while the socket is in a hook's
\* state, the hook has a list configured and the queue holds what is left of
\* that list (a prefix of it, the command popped last being the one that
\* runs); no command of an earlier hook is in the queue
C36_QueueBelongsToHook ==
    (~sock.crashed /\ sock.state \in Hooks) =>
        /\ ExecPresent[sock.state]
        /\ \E k \in 0..(Len(ExecCmds[sock.state]) - 1) :
              sock.ccmd = SubSeq(ExecCmds[sock.state], 1, k)


C38_OnePortPerListener ==
    cfg.load_state = "loaded" =>
        /\ cfg.cports = NListen
        /\ ~sock.crashed => Len(sock.ports) = NListen


\* C39: after a reboot, poweroff, halt or suspend command has set the
\* manager state, the main loop leaves the event loop and the system reboot
\* call is eventually made with the matching mode, also when every process
\* has exited after the first SIGTERM round
C39_RebootEventuallyCalled ==
    \A st \in {"Reboot", "PowerOff", "Halt", "Suspend"} :
        (mgr.state = st) ~> (mgr.rebooted = RebootModeOf[st])


\* C40: once a worker has been put in state Killing (a kill message was sent
\* to it), no device job is dispatched to it before it is removed from the
\* worker table: job_dispatch never selects a worker that has been sent a
\* kill message, in every interleaving of kill-timer expiry, 'finished' and
\* 'killed' acks and job dispatch; and the worker table never holds more
\* than workers_capacity workers
C40_NoJobAfterKill ==
    /\ wm.sel.id # -1 => ~wm.sel.killsent
    /\ WorkersLen(wm.workers) <= WorkersCapacity
====
